---- MODULE Spec2Model ----
(***************************************************************************)
(* State-machine model of the css-nes snapshot-driven cache and diff       *)
(* engine: PaletteManager, TileCache, BGLayer and the part of              *)
(* CSSRenderer.renderFrame that sequences them, driven by an emulator      *)
(* (jsnes PPU) whose memory the environment actions mutate.                *)
(*                                                                         *)
(* Arrays are 0-based functions, as in the source.  Object identity        *)
(* (Tile objects compared with !==) is modelled by object ids: ptTile[i]   *)
(* holds the id of the Tile object in slot i (0 = no object) and tilePix   *)
(* maps an id to that object's pix array.                                  *)
(***************************************************************************)
EXTENDS Integers, Sequences, FiniteSets, TLC

(***************************************************************************)
(* Bounds of the model.                                                    *)
(***************************************************************************)
\* Emulator-side mutations (palette, CHR, nametable, register writes) per run.
MaxOps == 2
\* Cells of a nametable quadrant.  The source has 960 (32 x 30).
CellsPerQuadrant == 2
\* Tiles per 1KB CHR region.  The source has 64 (ptTile[i * 64] samples a
\* region, 256 tiles per pattern table, 512 in all); the model keeps the 8
\* regions and the 2 pattern tables and scales the tiles of a region.
TilesPerRegion == 2
\* Longest run of frames that regenerate every sheet, and warnings per run.
MaxStreak == 62
MaxWarnings == 2
\* Number of ROM loads in a session.
MaxLoads == 2
\* Sprite slots of the OAM and of the sprite layer (64 in the source).
SpriteSlots == 2
\* Emulator-side mutations per run when sprites are rendered.
MaxSprOps == 3

(***************************************************************************)
(* Program constants.                                                      *)
(***************************************************************************)
\* Palette entries per role: new Array(16), for (i < 16).
NumPaletteEntries == 16

\* Pixels of a tile: pix[0..63].
PixLen == 64
\* 1KB regions per pattern table.
RegionsPerBank == 4
\* Sheets: 4 BG + 4 sprite bank 0 + 4 sprite bank 1.
NumSheets == 12
\* Consecutive all-sheet regenerations after which the warning is logged.
WarnAfter == 60

PalIdx == 0 .. (NumPaletteEntries - 1)
Groups == 0 .. 3
TilesPerBank == RegionsPerBank * TilesPerRegion   \* 256 in the source
NumTiles == 2 * TilesPerBank                      \* 512 in the source
Regions == 0 .. (2 * RegionsPerBank - 1)
TileIdx == 0 .. (NumTiles - 1)
Sheets == 0 .. (NumSheets - 1)

\* Packed colours (0xBBGGRR) the emulator writes into its palettes:
\* 0x000000, 0x0000FF (pure red) and 0x56340B (red 0x0b, green 0x34, blue 0x56).
PackedColors == {0, 255, 5649419}

Quadrants == 0 .. 3
PhysNTs == 0 .. 3
Cells == 0 .. (CellsPerQuadrant - 1)
Slots == 0 .. (SpriteSlots - 1)

VARIABLES
  imgPalette,        \* ppu.imgPalette[0..15]: emulator-owned background palette
  sprPalette,        \* ppu.sprPalette[0..15]: emulator-owned sprite palette
  ptTile,            \* ppu.ptTile[0..511]: id of the Tile object in each slot (0: none)
  tilePix,           \* the pix array of each Tile object, as a name of PixData
  f_bgPatternTable,  \* ppu.f_bgPatternTable (0 or 1)
  f_spPatternTable,  \* ppu.f_spPatternTable (0 or 1)
  nameTable,         \* ppu.nameTable[0..3]: tile[] and attrib[] of each physical nametable,
                     \* present FALSE for a null entry
  ntable1,           \* ppu.ntable1[0..3]: logical quadrant -> physical nametable
  scrollRegs,        \* ppu.regHT, regVT, regFH, regFV, regH, regV
  f_bgVisibility,    \* ppu.f_bgVisibility (0 or 1)
  spr,               \* ppu.sprX, sprY, sprTile, sprCol, horiFlip, vertFlip, bgPriority
  f_spriteSize,      \* ppu.f_spriteSize (0: 8x8, 1: 8x16)
  f_spVisibility,    \* ppu.f_spVisibility (0 or 1)
  ops,               \* number of emulator-side mutations so far
  pm,                \* the PaletteManager object
  pmLog,             \* arguments and result of the PaletteManager.update calls
  tc,                \* the TileCache object
  bg,                \* the BGLayer object and the DOM elements it owns
  sl,                \* the SpriteLayer object and the DOM elements it owns
  vp,                \* the viewport element of the CSSRenderer: style and dataset
  app,               \* the page script: emulator instance, run flags, animation-frame requests
  ev,                \* the handler that ran last and the calls it made, in order
  held,              \* a snapshot a caller of extract() keeps: its palette arrays
  fl                 \* frame log: snapshots of the latest two frames, objects before the
                     \* latest, number of latest frames in a row that rendered every sheet,
                     \* whether a tile content was ever replaced by one of equal checksum

palVars == <<imgPalette, sprPalette>>
chrVars == <<ptTile, tilePix>>
ctlVars == <<f_bgPatternTable, f_spPatternTable>>
ntVars  == <<nameTable, ntable1, scrollRegs, f_bgVisibility>>
sprVars == <<spr, f_spriteSize, f_spVisibility>>
envVars == <<palVars, chrVars, ctlVars, ntVars, sprVars, ops>>
pmVars  == <<pm, pmLog>>
rfVars  == <<tc, bg, sl, vp, fl>>
appVars == <<app, ev, held>>
vars    == <<envVars, sprVars, pmVars, rfVars, appVars>>
(***************************************************************************)
(* PaletteManager (palette-manager.js).                                    *)
(***************************************************************************)
HexDigits == <<"0", "1", "2", "3", "4", "5", "6", "7",
               "8", "9", "a", "b", "c", "d", "e", "f">>

\* Number.prototype.toString(16) of a non-negative integer: no leading zeros.
RECURSIVE ToString16(_)
ToString16(n) ==
  IF n < 16 THEN HexDigits[n + 1]
  ELSE ToString16(n \div 16) \o HexDigits[(n % 16) + 1]

\* String.prototype.padStart(len, "0").
RECURSIVE PadStart0(_, _)
PadStart0(s, len) == IF Len(s) >= len THEN s ELSE PadStart0("0" \o s, len)

\* A mis-reading of the packing: red taken from bits 16-23, blue from bits 0-7.
ToCSSAsRRGGBB(packed) ==
  LET r == (packed \div 65536) % 256
      g == (packed \div 256) % 256
      b == packed % 256
  IN "#" \o PadStart0(ToString16(r * 65536 + g * 256 + b), 6)

\* PaletteManager._toCSS: r = packed & 0xff, g = (packed >> 8) & 0xff,
\* b = (packed >> 16) & 0xff; '#' + ((r << 16) | (g << 8) | b) in hex, padded to 6.
ToCSS(packed) ==
  LET r == packed % 256
      g == (packed \div 256) % 256
      b == (packed \div 65536) % 256
  IN "#" \o PadStart0(ToString16(r * 65536 + g * 256 + b), 6)

\* new PaletteManager()
PMInit ==
  [ prevBg         |-> [i \in PalIdx |-> -1],
    prevSpr        |-> [i \in PalIdx |-> -1],
    bgColors       |-> [i \in PalIdx |-> "#000000"],
    sprColors      |-> [i \in PalIdx |-> "#000000"],
    dirtyBgGroups  |-> {},
    dirtySprGroups |-> {} ]

\* A clear() that was forgotten: the set keeps its members.
DirtyNotCleared(old) == old

\* this.dirtyBgGroups.clear() / this.dirtySprGroups.clear()
DirtyAfterClear(old) == {}

\* The group of entry i taken as i >> 1.
GroupOfShift1(i) == i \div 2

\* The group of palette entry i: i >> 2.
GroupOf(i) == i \div 4

\* PaletteManager.update(bgPalette, sprPalette): the object after the call.
\* Both dirty sets are cleared, then for i = 0..15 every entry that differs
\* from the stored one is converted, stored, and its group marked dirty.
PMUpdateF(p, bgPal, sprPal) ==
  LET bgDiff  == {i \in PalIdx : bgPal[i] # p.prevBg[i]}
      sprDiff == {i \in PalIdx : sprPal[i] # p.prevSpr[i]}
  IN [ prevBg         |-> [i \in PalIdx |-> IF i \in bgDiff THEN bgPal[i] ELSE p.prevBg[i]],
       prevSpr        |-> [i \in PalIdx |-> IF i \in sprDiff THEN sprPal[i] ELSE p.prevSpr[i]],
       bgColors       |-> [i \in PalIdx |-> IF i \in bgDiff THEN ToCSS(bgPal[i]) ELSE p.bgColors[i]],
       sprColors      |-> [i \in PalIdx |-> IF i \in sprDiff THEN ToCSS(sprPal[i]) ELSE p.sprColors[i]],
       dirtyBgGroups  |-> DirtyAfterClear(p.dirtyBgGroups) \cup {GroupOf(i) : i \in bgDiff},
       dirtySprGroups |-> DirtyAfterClear(p.dirtySprGroups) \cup {GroupOf(i) : i \in sprDiff} ]

\* The value update() returns, read off the object after the call.
PMUpdateRet(p) == p.dirtyBgGroups # {} \/ p.dirtySprGroups # {}

\* getBgPaletteGroup(n) / getSprPaletteGroup(n): 4 colours from base n << 2.
GetBgPaletteGroup(p, n) == [k \in 0..3 |-> p.bgColors[n * 4 + k]]
GetSprPaletteGroup(p, n) == [k \in 0..3 |-> p.sprColors[n * 4 + k]]

\* getBackgroundColor()
GetBackgroundColor(p) == p.bgColors[0]

(***************************************************************************)
(* Tile pixel data.  A pix array is a function 0..63 -> colour index.      *)
(* The emulator only ever stores the arrays of PixData in a tile, so a     *)
(* tile object's pix is kept as the name of its array.                     *)
(***************************************************************************)
Fill(v) == [i \in 0 .. (PixLen - 1) |-> v]

PixA ==
  [i \in 0 .. (PixLen - 1) |->
     IF i < 30
     THEN <<0, 2, 3, 3, 3, 1, 3, 3, 1, 0, 0, 3, 2, 0, 2, 0, 1, 3, 2, 2,
            0, 3, 3, 3, 2, 2, 0, 3, 1, 3>>[i + 1]
     ELSE 0]

PixData ==
  [ zero |-> Fill(0),                        \* new Uint8Array(64)
    dot  |-> [Fill(0) EXCEPT ![0] = 3],      \* pix[0] = 3
    two  |-> Fill(2),                        \* new Uint8Array(64).fill(2)
    a    |-> PixA,
    b    |-> [PixA EXCEPT ![0] = 3] ]        \* PixA with pix[0] = 3

PixNames == DOMAIN PixData

(***************************************************************************)
(* TileCache._hashPix.  h is a JavaScript number; h ^= pix[i] and | 0 work *)
(* on its 32-bit two's complement value, but h * 0x01000193 is an IEEE-754 *)
(* double multiplication: a product of magnitude 2^53 or more is rounded   *)
(* to the nearest representable double (ties to even) before | 0 keeps its *)
(* low 32 bits.  A 32-bit word is a pair <<high 16 bits, low 16 bits>>.    *)
(***************************************************************************)
\* Bit k of x ^ y, in place.
XorBit(x, y, k) == (((x \div (2 ^ k)) + (y \div (2 ^ k))) % 2) * (2 ^ k)

\* x ^ y for a 16-bit x and a Uint8Array element y (0..255): the low 8 bits
\* of x are xor-ed bit by bit, the high 8 bits kept.
Xor(x, y) ==
  (x \div 256) * 256
    + XorBit(x, y, 0) + XorBit(x, y, 1) + XorBit(x, y, 2) + XorBit(x, y, 3)
    + XorBit(x, y, 4) + XorBit(x, y, 5) + XorBit(x, y, 6) + XorBit(x, y, 7)

\* Two's complement negation of a 32-bit word.
Neg32(w) ==
  IF w[2] = 0 THEN <<(65536 - w[1]) % 65536, 0>>
  ELSE <<65535 - w[1], 65536 - w[2]>>

\* Spacing of the doubles around a product whose bits 48 and up are m3:
\* 8 from 2^55, 4 from 2^54, 2 from 2^53, 1 below (the product is exact).
DoubleSpacing(m3) ==
  IF m3 >= 128 THEN 8 ELSE IF m3 >= 64 THEN 4 ELSE IF m3 >= 32 THEN 2 ELSE 1

\* h * 0x01000193 for a magnitude h = ah * 2^16 + al, in 16-bit limbs
\* (0x01000193 = 256 * 2^16 + 403): t0, t1, t2 are the columns of the long
\* multiplication, bits 0-15 of the product are t0 % 2^16, bits 16-31 are
\* t1 % 2^16, bits 48 and up are t2 \div 2^16.
MulMid(ah, al, t0) == ah * 403 + al * 256 + (t0 \div 65536)
MulHigh(ah, t1) == ah * 256 + (t1 \div 65536)

\* The low limb m0 rounded to a multiple of the spacing g, ties to even; the
\* result may carry into the next limb.
RoundLow(m0, g) ==
  LET r == m0 % g
  IN m0 - r + (IF (2 * r > g) \/ (2 * r = g /\ (m0 \div g) % 2 = 1) THEN g ELSE 0)

\* The low 32 bits of the rounded product.
LowWord(m1, s0) == <<(m1 + (s0 \div 65536)) % 65536, s0 % 65536>>

RoundedProduct(ah, t0, t1) ==
  LowWord(t1 % 65536, RoundLow(t0 % 65536, DoubleSpacing(MulHigh(ah, t1) \div 65536)))

\* (mag * 0x01000193) as a double, low 32 bits, for a non-negative mag.
MulPrime(mag) ==
  RoundedProduct(mag[1], mag[2] * 403, MulMid(mag[1], mag[2], mag[2] * 403))

\* (w * 0x01000193) | 0 for the signed 32-bit value w: the magnitude is
\* multiplied and rounded, and the sign restored.
MulPrimeSigned(w) ==
  IF w[1] >= 32768 THEN Neg32(MulPrime(Neg32(w))) ELSE MulPrime(w)

\* One loop iteration: h ^= p; h = (h * 0x01000193) | 0.
HashStep(h, p) == MulPrimeSigned(<<h[1], Xor(h[2], p)>>)

\* The loop over pix[a .. b-1] started with h: the first half, then the
\* second half started with the first half's result.
RECURSIVE HashRange(_, _, _, _)
HashRange(pix, h, a, b) ==
  IF b - a = 1 THEN HashStep(h, pix[a])
  ELSE LET mid == (a + b) \div 2
       IN CHOOSE r \in {HashRange(pix, left, mid, b) :
                          left \in {HashRange(pix, h, a, mid)}} : TRUE

\* _hashPix(pix): seed 0x811c9dc5 = <<0x811c, 0x9dc5>>, 64 iterations, >>> 0.
HashPix(pix) == HashRange(pix, <<33052, 40389>>, 0, PixLen)

\* _hashPix of each pix content a tile can have.
PixHash == [n \in PixNames |-> CHOOSE r \in {HashPix(pix) : pix \in {PixData[n]}} : TRUE]

(***************************************************************************)
(* TileCache (tile-cache.js).  tiles[i] is the Tile in slot i as the cache *)
(* sees it during the call: [ref |-> object id, pix |-> name of its pix],  *)
(* ref 0 for a missing tile.  The pixels _renderSheet writes are not part  *)
(* of the state; rendered records which sheets it was called for.          *)
(***************************************************************************)
\* chrBankSignature === undefined
NoSignature == << >>

\* this.blobUrls[i] of a sheet never rendered (null)
NoUrl == <<>>

\* new TileCache()
TCInit ==
  [ tileChecksums     |-> [i \in TileIdx |-> <<0, 0>>],
    prevBankRefs      |-> [r \in Regions |-> 0],
    updatedSheets     |-> {},
    rendered          |-> {},
    prevBgBase        |-> -1,
    consecRegenFrames |-> 0,
    warnings          |-> 0,
    blobUrls          |-> [i \in Sheets |-> NoUrl],
    styleRules        |-> <<>>,
    styleWrites       |-> 0,
    live              |-> [i \in Sheets |-> {}],
    peakLive          |-> [i \in Sheets |-> 0] ]

\* A clear() that was forgotten: earlier frames' sheets stay in the set.
UpdatedNotCleared(old) == old

\* this.updatedSheets.clear()
UpdatedAfterClear(old) == {}

\* Only the first region of the pattern table is compared.
CheckBankDirtyFirstRegion(c, sig, ptBase) ==
  LET startRegion == IF ptBase >= TilesPerBank THEN RegionsPerBank ELSE 0
  IN sig[startRegion] # c.prevBankRefs[startRegion]

\* _checkBankDirty(chrBankSignature, ptBase)
CheckBankDirty(c, sig, ptBase) ==
  LET startRegion == IF ptBase >= TilesPerBank THEN RegionsPerBank ELSE 0
  IN \E i \in 0 .. (RegionsPerBank - 1) :
       sig[startRegion + i] # c.prevBankRefs[startRegion + i]

\* The stored tokens are never brought up to date.
UpdateBankRefsStale(sig) == [r \in Regions |-> 0]

\* _updateBankRefs(chrBankSignature)
UpdateBankRefs(sig) == [r \in Regions |-> sig[r]]

\* Only the first pattern table is scanned.
TileSumsFirstTable(c, tiles) ==
  [i \in TileIdx |->
     IF tiles[i].ref = 0 \/ i >= TilesPerBank THEN c.tileChecksums[i]
     ELSE PixHash[tiles[i].pix]]

\* _checkCHRDirty: tileChecksums after the scan (a missing tile is skipped).
TileSums(c, tiles) ==
  [i \in TileIdx |->
     IF tiles[i].ref = 0 THEN c.tileChecksums[i]
     ELSE PixHash[tiles[i].pix]]

\* _checkCHRDirty: { pt0Dirty, pt1Dirty } and the checksums it stores.
CheckCHRDirty(c, tiles) ==
  LET sums == TileSums(c, tiles)
  IN [ pt0Dirty |-> \E i \in 0 .. (TilesPerBank - 1) : sums[i] # c.tileChecksums[i],
       pt1Dirty |-> \E i \in TilesPerBank .. (NumTiles - 1) : sums[i] # c.tileChecksums[i],
       sums     |-> sums ]

\* The BG sheets ignore a change of bgBase.
BgSheetDirtyNoBase(p, palGroup, bgDirty, bgBaseChanged) ==
  palGroup \in p.dirtyBgGroups \/ bgDirty

\* The condition under which BG sheet palGroup is rendered.
BgSheetDirty(p, palGroup, bgDirty, bgBaseChanged) ==
  palGroup \in p.dirtyBgGroups \/ bgDirty \/ bgBaseChanged

\* The sprite sheets follow their palette group only.
SprSheetDirtyPaletteOnly(p, palGroup, sprDirty) == palGroup \in p.dirtySprGroups

\* The condition under which the sprite sheet of a bank is rendered.
SprSheetDirty(p, palGroup, sprDirty) ==
  palGroup \in p.dirtySprGroups \/ sprDirty

\* Only the bank selected by sprBase is rendered.
SprBankRenderedIfSelected(sprBase, bank) == (sprBase >= TilesPerBank) = (bank = 1)

\* Both sprite banks are rendered whatever sprBase is (sprBase is not read).
SprBankRendered(sprBase, bank) == TRUE

(***************************************************************************)
(* TileCache._renderSheet and _updateStylesheet.  A sheet image is kept at *)
(* the pixels PixReps of each tile: one pixel of each class of positions   *)
(* that every pix array of PixData treats alike, so two images are equal   *)
(* iff they are equal there.  A pixel is 0 when transparent (r, g, b, a    *)
(* all 0) and 2^24 + (r << 16 | g << 8 | b) when opaque (a = 255).  The    *)
(* identifier of a sheet is canvas.toDataURL('image/png'), a lossless      *)
(* encoding of the image.  live[i] is the set of identifiers stored for    *)
(* sheet i and not passed to URL.revokeObjectURL since, peakLive[i] the    *)
(* largest size it had during the latest update, styleWrites the number of *)
(* times the latest update assigned styleEl.textContent, styleRules the    *)
(* rules of that text in order.                                            *)
(***************************************************************************)
PixReps ==
  {k \in 0 .. (PixLen - 1) :
     \A j \in 0 .. (k - 1) : \E n \in PixNames : PixData[n][j] # PixData[n][k]}

\* The colour strings a palette manager can hold, and the value of each as
\* parseInt(c.slice(1), 16) reads it.
CSSColors == {ToCSS(packed) : packed \in PackedColors} \cup {"#000000"}
ParseColor ==
  [c \in CSSColors |->
     CHOOSE v \in {(packed % 256) * 65536 + ((packed \div 256) % 256) * 256
                     + ((packed \div 65536) % 256) : packed \in PackedColors} :
       "#" \o PadStart0(ToString16(v), 6) = c]

\* Every colour index drawn opaque.
PixelAllOpaque(colorIdx, colors) == 16777216 + ParseColor[colors[colorIdx]]

\* One pixel of the image data: transparent for colour index 0, else the
\* colour of the index, opaque.
Pixel(colorIdx, colors) ==
  IF colorIdx = 0 THEN 0 ELSE 16777216 + ParseColor[colors[colorIdx]]

\* The tile column and row only.
TileOriginRowZero(tileIdx) == <<(tileIdx % 16) * 8, 0>>

\* baseX, baseY of _renderSheet: the corner of tile tileIdx in the sheet.
TileOrigin(tileIdx) == <<(tileIdx % 16) * 8, ((tileIdx \div 16) % 16) * 8>>

\* destOffset / 4 for pixel k = (py << 3) + px of tile tileIdx.
DestPixel(tileIdx, k) ==
  (TileOrigin(tileIdx)[2] + (k \div 8)) * 128 + (TileOrigin(tileIdx)[1] + (k % 8))

\* The image data _renderSheet fills, as the set of <<destOffset / 4, rgba>>
\* of the pixels kept in the model: the pixels of tile base + tileIdx are
\* written at DestPixel, the pixels of an absent tile stay transparent as
\* createImageData made them.
SheetImage(tiles, base, colors) ==
  { <<DestPixel(t, k),
      IF tiles[base + t].ref = 0 THEN 0
      ELSE Pixel(PixData[tiles[base + t].pix][k], colors)>> :
    t \in 0 .. (TilesPerBank - 1), k \in PixReps }

\* this.canvases[sheetIndex].toDataURL('image/png')
ToDataURL(image) == <<image>>

\* The old identifier is not released.
RevokeNothing(live, url) == live

\* URL.revokeObjectURL(url)
RevokeObjectURL(live, url) == [i \in Sheets |-> live[i] \ {url}]

\* The pattern table and the colours sheet i is drawn from.
SheetBase(i, bgBase) == IF i < 4 THEN bgBase ELSE IF i < 8 THEN 0 ELSE TilesPerBank
SheetColors(p, i) ==
  IF i < 4 THEN GetBgPaletteGroup(p, i) ELSE GetSprPaletteGroup(p, i % 4)

\* The end of _renderSheet: revoke the old identifier, store the new one.
StoreUrl(u, i, released, url) ==
  [ blobUrls |-> [u.blobUrls EXCEPT ![i] = url],
    live     |-> [released EXCEPT ![i] = @ \cup {url}],
    peakLive |-> [u.peakLive EXCEPT
                    ![i] = IF Cardinality(released[i] \cup {url}) > @
                           THEN Cardinality(released[i] \cup {url}) ELSE @] ]

\* _renderSheet(sheetIndex, ptTile, base, colors)
RenderSheet(u, i, tiles, base, colors) ==
  StoreUrl(u, i,
           IF u.blobUrls[i] # NoUrl THEN RevokeObjectURL(u.live, u.blobUrls[i]) ELSE u.live,
           ToDataURL(SheetImage(tiles, base, colors)))

\* The _renderSheet calls of one update, in the order of the sheets.
RECURSIVE RenderSheets(_, _, _, _, _, _)
RenderSheets(u, i, regen, tiles, p, bgBase) ==
  IF i = NumSheets THEN u
  ELSE RenderSheets(IF i \in regen
                    THEN RenderSheet(u, i, tiles, SheetBase(i, bgBase), SheetColors(p, i))
                    ELSE u,
                    i + 1, regen, tiles, p, bgBase)

\* The class of sheet i: bg-pal-0..3, spr-b0-pal-0..3, spr-b1-pal-0..3.
SheetClassName(i) ==
  IF i < 4 THEN "bg-pal-" \o ToString(i)
  ELSE IF i < 8 THEN "spr-b0-pal-" \o ToString(i - 4)
  ELSE "spr-b1-pal-" \o ToString(i - 8)

\* _updateStylesheet(): one rule per sheet that has an identifier.
UpdateStylesheet(blobUrls) ==
  SelectSeq([k \in 1 .. NumSheets |->
               [class |-> SheetClassName(k - 1), url |-> blobUrls[k - 1]]],
            LAMBDA rule : rule.url # NoUrl)

\* The stylesheet is rewritten in every update.
StylesheetAlways(updated) == TRUE

\* if (this.updatedSheets.size > 0)
StylesheetNeeded(updated) == updated # {}

\* The sheets, then the stylesheet.
PublishSheets(c, u, updated) ==
  [ blobUrls    |-> u.blobUrls,
    live        |-> u.live,
    peakLive    |-> u.peakLive,
    styleRules  |-> IF StylesheetNeeded(updated) THEN UpdateStylesheet(u.blobUrls)
                    ELSE c.styleRules,
    styleWrites |-> IF StylesheetNeeded(updated) THEN 1 ELSE 0 ]

\* The stored tokens are dropped by a call without a signature.
BankRefsForgotten(c) == [r \in Regions |-> 0]

\* if (chrBankSignature) { ... } skipped: prevBankRefs is not assigned.
BankRefsKept(c) == c.prevBankRefs

\* The warning is repeated on every call of the streak from the 60th on.
WarnFrom(consec) == consec >= WarnAfter

\* if (this._consecRegenFrames === 60) console.warn(...)
WarnNow(consec) == consec = WarnAfter

\* TileCache.update(ptTile, paletteManager, bgBase, sprBase, chrBankSignature):
\* the object after the call.
TCUpdateF(c, tiles, p, bgBase, sprBase, sig) ==
  LET bgBaseChanged == bgBase # c.prevBgBase
      hasSig        == sig # NoSignature
      bgBankDirty   == hasSig /\ CheckBankDirty(c, sig, bgBase)
      sprBank0Dirty == hasSig /\ CheckBankDirty(c, sig, 0)
      sprBank1Dirty == hasSig /\ CheckBankDirty(c, sig, TilesPerBank)
      chr           == CheckCHRDirty(c, tiles)
      bgPTIndex     == IF bgBase >= TilesPerBank THEN 1 ELSE 0
      bgDirty       == bgBankDirty \/ (IF bgPTIndex = 0 THEN chr.pt0Dirty ELSE chr.pt1Dirty)
      spr0Dirty     == sprBank0Dirty \/ chr.pt0Dirty
      spr1Dirty     == sprBank1Dirty \/ chr.pt1Dirty
      regen         ==
        {g \in Groups : BgSheetDirty(p, g, bgDirty, bgBaseChanged)}
          \cup {4 + g : g \in {k \in Groups : SprBankRendered(sprBase, 0) /\ SprSheetDirty(p, k, spr0Dirty)}}
          \cup {8 + g : g \in {k \in Groups : SprBankRendered(sprBase, 1) /\ SprSheetDirty(p, k, spr1Dirty)}}
      updated       == UpdatedAfterClear(c.updatedSheets) \cup regen
      all           == Cardinality(updated) = NumSheets
      consec        == IF all THEN c.consecRegenFrames + 1 ELSE 0
      pub           ==
        PublishSheets(c,
                      RenderSheets([blobUrls |-> c.blobUrls, live |-> c.live,
                                    peakLive |-> [i \in Sheets |-> Cardinality(c.live[i])]],
                                   0, regen, tiles, p, bgBase),
                      updated)
  IN [ tileChecksums     |-> chr.sums,
       prevBankRefs      |-> IF hasSig THEN UpdateBankRefs(sig) ELSE BankRefsKept(c),
       updatedSheets     |-> updated,
       rendered          |-> regen,
       prevBgBase        |-> bgBase,
       consecRegenFrames |-> consec,
       warnings          |-> IF all /\ WarnNow(consec) THEN c.warnings + 1 ELSE c.warnings,
       blobUrls          |-> pub.blobUrls,
       styleRules        |-> pub.styleRules,
       styleWrites       |-> pub.styleWrites,
       live              |-> pub.live,
       peakLive          |-> pub.peakLive ]

\* bgSheetUpdated(palGroup)
BgSheetUpdated(c, palGroup) == palGroup \in c.updatedSheets

\* sprSheetUpdated(palGroup)
SprSheetUpdated(c, palGroup) ==
  (4 + palGroup) \in c.updatedSheets \/ (8 + palGroup) \in c.updatedSheets

(***************************************************************************)
(* BGLayer (debug-overlay.js).  The object keeps prevTile[q][i] and         *)
(* prevAttrib[q][i]; quadTileDivs[q][i] is the cell's DOM element with its *)
(* style.backgroundPosition, className and dataset entries ("" while not   *)
(* set).  written is the set of cells the latest update did not skip.      *)
(***************************************************************************)
\* TileCache.getTilePosition(index)
GetTilePosition(index) ==
  LET col == index % 16
      row == (index \div 16) % 16
  IN "-" \o ToString(col * 8) \o "px -" \o ToString(row * 8) \o "px"

InitDiv ==
  [ backgroundPosition |-> "", className |-> "bg-tile",
    tileIdx |-> "", tileHex |-> "", palette |-> "" ]

\* new BGLayer(container)
BGInit ==
  [ display      |-> "",
    physNt       |-> [q \in Quadrants |-> ""],
    left         |-> [q \in Quadrants |-> ""],
    top          |-> [q \in Quadrants |-> ""],
    transform    |-> "",
    prevTile     |-> [q \in Quadrants |-> [i \in Cells |-> -1]],
    prevAttrib   |-> [q \in Quadrants |-> [i \in Cells |-> -1]],
    quadTileDivs |-> [q \in Quadrants |-> [i \in Cells |-> InitDiv]],
    written      |-> {} ]

\* The palette group is stored as the attribute baseline.
StoredAttribAsGroup(rawAttrib, palGroup) == palGroup

\* prevA[i] = rawAttrib (an Int8Array element; attributes are 0..12)
StoredAttrib(rawAttrib, palGroup) == rawAttrib

\* The low two bits of the attribute.
AttribPalGroupLowBits(rawAttrib) == rawAttrib % 4

\* const palGroup = rawAttrib >> 2
AttribPalGroup(rawAttrib) == rawAttrib \div 4

\* DebugOverlay._updatePaletteRegions: the palette group that colours the
\* block over cell tileIdx of nametable nt.  palGroup = nt.attrib[tileIdx] & 3
\* (attributes are 0..12), 0 for a null nametable.
PaletteRegionGroup(nt, tileIdx) ==
  IF nt.present THEN nt.attrib[tileIdx] % 4 ELSE 0

\* One iteration of the loop of _updateQuadrant: the cell after it, and
\* whether the cell was written (not skipped by continue).
UpdateCell(prevT, prevA, div, tileIdx, rawAttrib, c) ==
  LET palGroup      == AttribPalGroup(rawAttrib)
      tileChanged   == tileIdx # prevT
      attribChanged == rawAttrib # prevA
      sheetChanged  == BgSheetUpdated(c, palGroup)
      tileHex       == "$" \o PadStart0(ToString16(tileIdx), 2)
  IN IF ~tileChanged /\ ~attribChanged /\ ~sheetChanged
     THEN [prevT |-> prevT, prevA |-> prevA, div |-> div, written |-> FALSE]
     ELSE [ prevT |-> IF tileChanged \/ sheetChanged THEN tileIdx ELSE prevT,
            prevA |-> IF attribChanged THEN StoredAttrib(rawAttrib, palGroup) ELSE prevA,
            div   |->
              [ backgroundPosition |->
                  IF tileChanged \/ sheetChanged THEN GetTilePosition(tileIdx)
                  ELSE div.backgroundPosition,
                className |->
                  IF attribChanged THEN "bg-tile bg-pal-" \o ToString(palGroup)
                  ELSE div.className,
                tileIdx |->
                  IF attribChanged \/ tileChanged THEN ToString(tileIdx) ELSE div.tileIdx,
                tileHex |->
                  IF attribChanged \/ tileChanged THEN tileHex ELSE div.tileHex,
                palette |->
                  IF attribChanged THEN ToString(palGroup) ELSE div.palette ],
            written |-> TRUE ]

\* _updateQuadrant(q, ntData, tileCache): every cell of quadrant q after it.
UpdateQuadrant(b, q, ntData, c) ==
  [i \in Cells |->
     UpdateCell(b.prevTile[q][i], b.prevAttrib[q][i], b.quadTileDivs[q][i],
                ntData.tile[i], ntData.attrib[i], c)]

\* Scroll pixel position.
ScrollX(scroll) == scroll.coarseX * 8 + scroll.fineX + scroll.nameTableH * 256
ScrollY(scroll) == scroll.coarseY * 8 + scroll.fineY + scroll.nameTableV * 240

\* The quadrant keeps its base column whatever the scroll.
QuadrantXNoWrap(q, scrollX) == (q % 2) * 256

\* Position of quadrant q after the wrap.
QuadrantX(q, scrollX) ==
  LET qx == (q % 2) * 256 IN IF qx + 256 <= scrollX THEN qx + 512 ELSE qx
QuadrantY(q, scrollY) ==
  LET qy == (q \div 2) * 240 IN IF qy + 240 <= scrollY THEN qy + 480 ELSE qy

\* The quadrant index is taken for the physical nametable.
PhysNTIdentity(ppuState, q) == q

\* const physNT = mirrorMap[q]
PhysNT(ppuState, q) == ppuState.mirrorMap[q]

\* The layer is built anew when it is hidden.
HiddenLayerRebuilt(b) == [BGInit EXCEPT !.display = "none"]

\* this.bgLayer.style.display = 'none'; if (!bgVisible) return;
HiddenLayer(b) == [b EXCEPT !.display = "none", !.written = {}]

\* BGLayer.update(ppuState, tileCache): the object after the call.
BGUpdateF(b, ppuState, c) ==
  IF ~ppuState.bgVisible
  THEN HiddenLayer(b)
  ELSE
    LET updated(q) == ppuState.nameTables[PhysNT(ppuState, q)].present
        cell(q, i) ==
          UpdateQuadrant(b, q, ppuState.nameTables[PhysNT(ppuState, q)], c)[i]
        scrollX == ScrollX(ppuState.scroll)
        scrollY == ScrollY(ppuState.scroll)
    IN [ display      |-> "",
         physNt       |-> [q \in Quadrants |->
                             IF updated(q) THEN ToString(PhysNT(ppuState, q))
                             ELSE b.physNt[q]],
         left         |-> [q \in Quadrants |-> ToString(QuadrantX(q, scrollX)) \o "px"],
         top          |-> [q \in Quadrants |-> ToString(QuadrantY(q, scrollY)) \o "px"],
         transform    |-> "translate(" \o ToString(0 - scrollX) \o "px, "
                            \o ToString(0 - scrollY) \o "px)",
         prevTile     |-> [q \in Quadrants |-> [i \in Cells |->
                             IF updated(q) THEN cell(q, i).prevT ELSE b.prevTile[q][i]]],
         prevAttrib   |-> [q \in Quadrants |-> [i \in Cells |->
                             IF updated(q) THEN cell(q, i).prevA ELSE b.prevAttrib[q][i]]],
         quadTileDivs |-> [q \in Quadrants |-> [i \in Cells |->
                             IF updated(q) THEN cell(q, i).div ELSE b.quadTileDivs[q][i]]],
         written      |-> {qi \in Quadrants \X Cells :
                             updated(qi[1]) /\ cell(qi[1], qi[2]).written} ]

(***************************************************************************)
(* Tile objects.  Slot i of ptTile initially holds its own object i + 1    *)
(* with an all-zero pix (CHR-RAM).  Each VROM bank is a 1KB region's worth *)
(* of further objects, which a mapper bank switch puts into a region.      *)
(***************************************************************************)
VromBanks == {0, 1}
VromObj(bank, k) == NumTiles + bank * TilesPerRegion + k + 1
VromPix(bank) == IF bank = 0 THEN "two" ELSE "zero"
ObjIds == 1 .. (NumTiles + Cardinality(VromBanks) * TilesPerRegion)

\* Slots the emulator writes pixel data to: the first and last tile of each
\* pattern table.
WriteSlots == {0, TilesPerBank - 1, TilesPerBank, NumTiles - 1}

\* Palette entries the emulator writes while the tile cache is exercised.
FramePalIdx == {0, 9}
\* The background palette entry written while the background layer is exercised.
BgFramePalIdx == {5}

(***************************************************************************)
(* SpriteLayer: one div per sprite slot with two half divs for the 8x16    *)
(* mode.  Styles, className and dataset entries are strings ("" while not  *)
(* set); dataset.idx and dataset.oamAddr are set once by the constructor   *)
(* and are not modelled.                                                   *)
(***************************************************************************)
InitHalf == [display |-> "", className |-> "sprite-half", backgroundPosition |-> ""]

InitSprite ==
  [ display |-> "none", left |-> "", top |-> "", zIndex |-> "", width |-> "", height |-> "",
    className |-> "sprite", backgroundPosition |-> "", backgroundImage |-> "",
    transform |-> "",
    x |-> "", y |-> "", tileIdx |-> "", tileHex |-> "", palette |-> "",
    flipH |-> "", flipV |-> "", priority |-> "",
    topDiv |-> InitHalf, botDiv |-> InitHalf ]

\* new SpriteLayer(container)
SLInit ==
  [ display |-> "", prevSpriteSize |-> -1, spriteDivs |-> [i \in Slots |-> InitSprite] ]

\* _updateSpriteMode(is8x16), for one div
UpdateSpriteMode(div, is8x16) ==
  [div EXCEPT !.width = "8px", !.height = IF is8x16 THEN "16px" ELSE "8px"]

\* The row as stored in OAM, without the scanline offset.
SpriteTopNoOffset(y) == y

\* const sprY = spr.y + 1
SpriteTop(y) == y + 1

\* The bank of the sprite pattern table, for every sprite.
BankIdx8x16FromBase(tileIndex, sprBase) == IF sprBase = 0 THEN 0 ELSE 1

\* The bank of an 8x16 sprite: bit 0 of the tile index.
BankIdx8x16(tileIndex, sprBase) == IF tileIndex % 2 = 1 THEN 1 ELSE 0

\* The bank of an 8x8 sprite: the sprite pattern table.
BankIdx8x8(sprBase) == IF sprBase = 0 THEN 0 ELSE 1

\* The halves keep their tiles under a vertical flip.
HalfTilesNoSwap(topTileIdx, botTileIdx, flipV) == <<topTileIdx, botTileIdx>>

\* The tiles of the top and of the bottom half div: swapped under a vertical flip.
HalfTiles(topTileIdx, botTileIdx, flipV) ==
  IF flipV THEN <<botTileIdx, topTileIdx>> ELSE <<topTileIdx, botTileIdx>>

ScaleTransform(scaleX, scaleY) ==
  "scale(" \o ToString(scaleX) \o ", " \o ToString(scaleY) \o ")"

PalClass(bankIdx, palGroup) ==
  "spr-b" \o ToString(bankIdx) \o "-pal-" \o ToString(palGroup)

\* _update8x8(i, spr, palGroup, scaleX, scaleY, sprBase, tileCache)
Update8x8(div, sprite, palGroup, scaleX, scaleY, sprBase) ==
  [div EXCEPT
     !.className = "sprite " \o PalClass(BankIdx8x8(sprBase), palGroup),
     !.backgroundPosition = GetTilePosition(sprite.tileIndex),
     !.transform = ScaleTransform(scaleX, scaleY),
     !.topDiv.display = "none",
     !.botDiv.display = "none"]

\* _update8x16(i, spr, palGroup, scaleX, scaleY, sprBase, tileCache)
Update8x16(div, sprite, palGroup, scaleX, scaleY, sprBase) ==
  LET bankIdx    == BankIdx8x16(sprite.tileIndex, sprBase)
      topTileIdx == sprite.tileIndex - (sprite.tileIndex % 2)
      botTileIdx == topTileIdx + 1
      halves     == HalfTiles(topTileIdx, botTileIdx, sprite.flipV)
      halfClass  == "sprite-half " \o PalClass(bankIdx, palGroup)
  IN [div EXCEPT
        !.className = "sprite-8x16",
        !.transform = ScaleTransform(scaleX, scaleY),
        !.backgroundImage = "none",
        !.backgroundPosition = "",
        !.topDiv = [display |-> "", className |-> halfClass,
                    backgroundPosition |-> GetTilePosition(halves[1])],
        !.botDiv = [display |-> "", className |-> halfClass,
                    backgroundPosition |-> GetTilePosition(halves[2])]]

\* One iteration of the loop of SpriteLayer.update: the div of a slot after it.
UpdateSprite(div, sprite, is8x16, sprBase) ==
  LET sprY      == SpriteTop(sprite.y)
      sprHeight == IF is8x16 THEN 16 ELSE 8
      palGroup  == sprite.palette \div 4
      scaleX    == IF sprite.flipH THEN -1 ELSE 1
      scaleY    == IF sprite.flipV THEN -1 ELSE 1
      shown     ==
        [div EXCEPT
           !.display  = "",
           !.left     = ToString(sprite.x) \o "px",
           !.top      = ToString(sprY) \o "px",
           !.zIndex   = IF sprite.behindBg THEN "-1" ELSE "1",
           !.x        = ToString(sprite.x),
           !.y        = ToString(sprY),
           !.tileIdx  = ToString(sprite.tileIndex),
           !.tileHex  = "$" \o PadStart0(ToString16(sprite.tileIndex), 2),
           !.palette  = ToString(palGroup),
           !.flipH    = IF sprite.flipH THEN "1" ELSE "0",
           !.flipV    = IF sprite.flipV THEN "1" ELSE "0",
           !.priority = IF sprite.behindBg THEN "behind-bg" ELSE "in-front"]
  IN IF sprY >= 240 \/ sprY + sprHeight <= 0
     THEN [div EXCEPT !.display = "none"]
     ELSE IF is8x16
          THEN Update8x16(shown, sprite, palGroup, scaleX, scaleY, sprBase)
          ELSE Update8x8(shown, sprite, palGroup, scaleX, scaleY, sprBase)

\* Slots are recomputed only in the call that changes the sprite mode.
SlotsOnModeChange(layer, ppuState) ==
  IF ppuState.spriteSize # layer.prevSpriteSize THEN Slots ELSE {}

\* for (let i = 0; i < 64; i++): the slots the loop recomputes
SlotsUpdated(layer, ppuState) == Slots

\* SpriteLayer.update(ppuState, tileCache): the object after the call.
SLUpdateF(layer, ppuState, c) ==
  IF ~ppuState.spritesVisible
  THEN [layer EXCEPT !.display = "none"]
  ELSE LET is8x16 == ppuState.spriteSize = 1
           divs   == IF ppuState.spriteSize # layer.prevSpriteSize
                     THEN [i \in Slots |-> UpdateSpriteMode(layer.spriteDivs[i], is8x16)]
                     ELSE layer.spriteDivs
       IN [ display        |-> "",
            prevSpriteSize |-> ppuState.spriteSize,
            spriteDivs     |->
              [i \in Slots |->
                 IF i \in SlotsUpdated(layer, ppuState)
                 THEN UpdateSprite(divs[i], ppuState.sprites[i], is8x16,
                                   ppuState.sprPatternBase)
                 ELSE divs[i]] ]

(***************************************************************************)
(* The viewport element of the CSSRenderer: style.backgroundColor and the  *)
(* dataset entries renderFrame writes ("" while not set).                  *)
(***************************************************************************)
\* new CSSRenderer(wrapperEl)
VPInit ==
  [ backgroundColor |-> "", scrollX |-> "", scrollY |-> "", bgColor |-> "",
    bgPatternTable |-> "", sprPatternTable |-> "", spriteSize |-> "", mirroring |-> "" ]

\* The published scroll without the nametable select.
ViewportScrollXNoNT(s) == s.coarseX * 8 + s.fineX

\* dataset.scrollX and dataset.scrollY
ViewportScrollX(s) == s.coarseX * 8 + s.fineX + s.nameTableH * 256
ViewportScrollY(s) == s.coarseY * 8 + s.fineY + s.nameTableV * 240

\* ppuState.mirrorMap.join(',')
JoinMirrorMap(m) ==
  ToString(m[0]) \o "," \o ToString(m[1]) \o "," \o ToString(m[2]) \o "," \o ToString(m[3])

\* Steps 5 and 6 of renderFrame: the viewport after them.
LabelViewport(ppuState, p) ==
  [ backgroundColor |-> GetBackgroundColor(p),
    scrollX         |-> ToString(ViewportScrollX(ppuState.scroll)),
    scrollY         |-> ToString(ViewportScrollY(ppuState.scroll)),
    bgColor         |-> GetBackgroundColor(p),
    bgPatternTable  |-> IF ppuState.bgPatternBase = 0 THEN "$0000" ELSE "$1000",
    sprPatternTable |-> IF ppuState.sprPatternBase = 0 THEN "$0000" ELSE "$1000",
    spriteSize      |-> IF ppuState.spriteSize = 0 THEN "8x8" ELSE "8x16",
    mirroring       |-> JoinMirrorMap(ppuState.mirrorMap) ]

(***************************************************************************)
(* The emulator's PPU fields the extractor reads.                          *)
(***************************************************************************)
PPU ==
  [ imgPalette       |-> imgPalette,
    sprPalette       |-> sprPalette,
    ptTile           |-> ptTile,
    tilePix          |-> tilePix,
    f_bgPatternTable |-> f_bgPatternTable,
    f_spPatternTable |-> f_spPatternTable,
    nameTable        |-> nameTable,
    ntable1          |-> ntable1,
    scrollRegs       |-> scrollRegs,
    f_bgVisibility   |-> f_bgVisibility,
    sprX             |-> spr.sprX,
    sprY             |-> spr.sprY,
    sprTile          |-> spr.sprTile,
    sprCol           |-> spr.sprCol,
    horiFlip         |-> spr.horiFlip,
    vertFlip         |-> spr.vertFlip,
    bgPriority       |-> spr.bgPriority,
    f_spriteSize     |-> f_spriteSize,
    f_spVisibility   |-> f_spVisibility ]

\* Mirroring maps a mapper can set: horizontal, vertical, single-screen,
\* four-screen.
Mirrorings ==
  { [q \in Quadrants |-> q \div 2], [q \in Quadrants |-> q % 2],
    [q \in Quadrants |-> 0], [q \in Quadrants |-> q] }

\* Values the game stores in nametable cells: tile indices and attribute
\* values (palette group * 4).
TileValues == {0, 42}
AttribValues == {0, 4}
\* Physical nametables and scroll register contents the game writes.
WrittenNTs == {0, 1}
\* Physical nametables that can be null.
UnmappedNTs == {1, 3}
ScrollWrites ==
  { [regHT |-> 10, regVT |-> 5, regFH |-> 3, regFV |-> 2, regH |-> 1, regV |-> 0],
    [regHT |-> 0, regVT |-> 0, regFH |-> 0, regFV |-> 0, regH |-> 0, regV |-> 1] }

\* Every content of the registers of one scroll axis: coarse 0..31 (5 bits),
\* fine 0..7 (3 bits), nametable select 0..1, and the ones paired with every
\* content of the other axis.
AxisStates == (0 .. 31) \X (0 .. 7) \X {0, 1}
AxisSamples == {<<31, 7, 1>>}
ScrollStates ==
  { [regHT |-> xy[1][1], regFH |-> xy[1][2], regH |-> xy[1][3],
     regVT |-> xy[2][1], regFV |-> xy[2][2], regV |-> xy[2][3]] :
      xy \in (AxisStates \X AxisSamples) \cup (AxisSamples \X AxisStates) }

\* OAM contents the game writes for one sprite: x, y, tile index, palette
\* offset (0, 4, 8, 12), flips and priority.  y 238 is the last row shown,
\* 239 and 255 are hidden.
SpriteWrites ==
  { [x |-> 255, y |-> 238, tileIndex |-> 43, palette |-> 12,
     flipH |-> TRUE, flipV |-> TRUE, behindBg |-> TRUE],
    [x |-> 16, y |-> 100, tileIndex |-> 254, palette |-> 4,
     flipH |-> FALSE, flipV |-> TRUE, behindBg |-> FALSE],
    [x |-> 8, y |-> 239, tileIndex |-> 42, palette |-> 8,
     flipH |-> TRUE, flipV |-> FALSE, behindBg |-> FALSE],
    [x |-> 100, y |-> 255, tileIndex |-> 255, palette |-> 0,
     flipH |-> FALSE, flipV |-> FALSE, behindBg |-> TRUE] }

\* The PPU after reset and ROM load: palettes, CHR-RAM, nametables and OAM
\* zeroed, horizontal mirroring, 8x8 sprites, rendering off.
InitPPU ==
  [ imgPalette       |-> [i \in PalIdx |-> 0],
    sprPalette       |-> [i \in PalIdx |-> 0],
    ptTile           |-> [i \in TileIdx |-> i + 1],
    tilePix          |-> [o \in ObjIds |->
                            IF o <= NumTiles THEN "zero"
                            ELSE VromPix((o - NumTiles - 1) \div TilesPerRegion)],
    f_bgPatternTable |-> 0,
    f_spPatternTable |-> 0,
    nameTable        |-> [p \in PhysNTs |->
                            [present |-> TRUE,
                             tile |-> [i \in Cells |-> 0], attrib |-> [i \in Cells |-> 0]]],
    ntable1          |-> [q \in Quadrants |-> q \div 2],
    scrollRegs       |-> [regHT |-> 0, regVT |-> 0, regFH |-> 0, regFV |-> 0,
                          regH |-> 0, regV |-> 0],
    f_bgVisibility   |-> 0,
    sprX             |-> [i \in Slots |-> 0],
    sprY             |-> [i \in Slots |-> 0],
    sprTile          |-> [i \in Slots |-> 0],
    sprCol           |-> [i \in Slots |-> 0],
    horiFlip         |-> [i \in Slots |-> FALSE],
    vertFlip         |-> [i \in Slots |-> FALSE],
    bgPriority       |-> [i \in Slots |-> FALSE],
    f_spriteSize     |-> 0,
    f_spVisibility   |-> 0 ]

(***************************************************************************)
(* PPUStateExtractor.extract: the snapshot of the emulator state.          *)
(* Palettes are copied; ptTile and the nametables are passed by reference, *)
(* so the snapshot shows them as they are when the frame is rendered.      *)
(***************************************************************************)
ExtractCHRBankSignature(ppu) == [r \in Regions |-> ppu.ptTile[r * TilesPerRegion]]

ExtractNameTables(ppu) ==
  [p \in PhysNTs |->
     [present |-> ppu.nameTable[p].present,
      tile |-> ppu.nameTable[p].tile, attrib |-> ppu.nameTable[p].attrib]]

ExtractSprites(ppu) ==
  [i \in Slots |->
     [ x         |-> ppu.sprX[i],
       y         |-> ppu.sprY[i],
       tileIndex |-> ppu.sprTile[i],
       palette   |-> ppu.sprCol[i],
       flipH     |-> ppu.horiFlip[i],
       flipV     |-> ppu.vertFlip[i],
       behindBg  |-> ppu.bgPriority[i] ]]

\* arr.slice(0, 16): a new array with the first 16 entries.
Slice16(arr) == [i \in 0 .. 15 |-> arr[i]]

\* The palette array of a snapshot as an object: its own storage (items), or
\* the emulator's array itself.  What a reader finds in it is Observed.
PaletteAlias(name, ppu) == [alias |-> TRUE, of |-> name, items |-> Slice16(ppu[name])]

\* ppu.imgPalette.slice(0, 16), ppu.sprPalette.slice(0, 16) as objects
PaletteCopy(name, ppu) == [alias |-> FALSE, of |-> name, items |-> Slice16(ppu[name])]

Extract(ppu) ==
  [ bgPalette        |-> Slice16(ppu.imgPalette),
    sprPalette       |-> Slice16(ppu.sprPalette),
    nameTables       |-> ExtractNameTables(ppu),
    mirrorMap        |-> ppu.ntable1,
    sprites          |-> ExtractSprites(ppu),
    ptTile           |-> [i \in TileIdx |->
                            [ref |-> ppu.ptTile[i],
                             pix |-> IF ppu.ptTile[i] = 0 THEN "zero"
                                     ELSE ppu.tilePix[ppu.ptTile[i]]]],
    scroll           |-> [coarseX    |-> ppu.scrollRegs.regHT,
                          coarseY    |-> ppu.scrollRegs.regVT,
                          fineX      |-> ppu.scrollRegs.regFH,
                          fineY      |-> ppu.scrollRegs.regFV,
                          nameTableH |-> ppu.scrollRegs.regH,
                          nameTableV |-> ppu.scrollRegs.regV],
    bgPatternBase    |-> IF ppu.f_bgPatternTable = 0 THEN 0 ELSE TilesPerBank,
    sprPatternBase   |-> IF ppu.f_spPatternTable = 0 THEN 0 ELSE TilesPerBank,
    spriteSize       |-> ppu.f_spriteSize,
    bgVisible        |-> ppu.f_bgVisibility = 1,
    spritesVisible   |-> ppu.f_spVisibility = 1,
    chrBankSignature |-> ExtractCHRBankSignature(ppu) ]

(***************************************************************************)
(* Initial state: the PPU after reset, and freshly constructed renderer    *)
(* objects.                                                                *)
(***************************************************************************)
NoCall ==
  [ calls |-> 0, first |-> FALSE, ret |-> FALSE,
    bgIn |-> [i \in PalIdx |-> -1], sprIn |-> [i \in PalIdx |-> -1],
    prevBgIn |-> [i \in PalIdx |-> -1], prevSprIn |-> [i \in PalIdx |-> -1] ]

(***************************************************************************)
(* The page script: ROM loading, the game loop on animation frames, the    *)
(* Pause, Step and Canvas Mode buttons.  nes is the number of the NES      *)
(* instance (0: none yet) and romLoaded tells whether nes.loadROM          *)
(* succeeded on it; latestPPUState is <<>> for null and <<snapshot>>       *)
(* otherwise; rafId is "null", "pending" (the request it names is still    *)
(* pending) or "gone" (that request ran or was cancelled); pending counts  *)
(* the gameLoop callbacks waiting in requestAnimationFrame.  The buttons'  *)
(* disabled flags are functions of running and paused (ButtonDisabled);    *)
(* their labels, the fps counter and the keyboard are not modelled.        *)
(* popover and highlight are the display styles of the two elements of the *)
(* AnnotationPopover that renderer.initAnnotation attaches to the          *)
(* viewport.                                                               *)
(***************************************************************************)
AppInit ==
  [ nes |-> 0, extractor |-> 0, romLoaded |-> FALSE, latestPPUState |-> <<>>,
    running |-> FALSE, paused |-> FALSE, canvasMode |-> FALSE,
    rafId |-> "null", pending |-> 0,
    viewportPaused |-> FALSE, wrapperDisplay |-> "", compareCanvas |-> <<>>,
    statusBar |-> "", popover |-> "none", highlight |-> "none" ]

\* No snapshot kept.
NotHeld == <<>>

\* No handler ran yet.
NoEvent == [handler |-> "", calls |-> <<>>]

\* No frame rendered yet.
NoFrame ==
  [ n |-> 0, snap |-> Extract(InitPPU), prev |-> Extract(InitPPU),
    pmPre |-> PMInit, tcPre |-> TCInit, bgPre |-> BGInit, slPre |-> SLInit,
    streak |-> 0, clash |-> FALSE ]

Init ==
  /\ imgPalette = InitPPU.imgPalette
  /\ sprPalette = InitPPU.sprPalette
  /\ ptTile = InitPPU.ptTile
  /\ tilePix = InitPPU.tilePix
  /\ f_bgPatternTable = InitPPU.f_bgPatternTable
  /\ f_spPatternTable = InitPPU.f_spPatternTable
  /\ nameTable = InitPPU.nameTable
  /\ ntable1 = InitPPU.ntable1
  /\ scrollRegs = InitPPU.scrollRegs
  /\ f_bgVisibility = InitPPU.f_bgVisibility
  /\ spr = [ sprX |-> InitPPU.sprX, sprY |-> InitPPU.sprY, sprTile |-> InitPPU.sprTile,
             sprCol |-> InitPPU.sprCol, horiFlip |-> InitPPU.horiFlip,
             vertFlip |-> InitPPU.vertFlip, bgPriority |-> InitPPU.bgPriority ]
  /\ f_spriteSize = InitPPU.f_spriteSize
  /\ f_spVisibility = InitPPU.f_spVisibility
  /\ ops = 0
  /\ pm = PMInit
  /\ pmLog = NoCall
  /\ tc = TCInit
  /\ bg = BGInit
  /\ sl = SLInit
  /\ vp = VPInit
  /\ fl = NoFrame
  /\ app = AppInit
  /\ ev = NoEvent
  /\ held = NotHeld

(***************************************************************************)
(* Emulator: what the game does to the PPU between two rendered frames.    *)
(***************************************************************************)
\* A palette RAM write.
EmuWriteBgPalette(I) ==
  /\ ops < MaxOps
  /\ \E i \in I, v \in PackedColors :
       /\ v # imgPalette[i]
       /\ imgPalette' = [imgPalette EXCEPT ![i] = v]
  /\ ops' = ops + 1
  /\ UNCHANGED <<sprPalette, chrVars, ctlVars, ntVars, sprVars, pmVars, rfVars, appVars>>

EmuWriteSprPalette(I) ==
  /\ ops < MaxOps
  /\ \E i \in I, v \in PackedColors :
       /\ v # sprPalette[i]
       /\ sprPalette' = [sprPalette EXCEPT ![i] = v]
  /\ ops' = ops + 1
  /\ UNCHANGED <<imgPalette, chrVars, ctlVars, ntVars, sprVars, pmVars, rfVars, appVars>>

\* CHR-RAM writes: the pix array of the Tile object in a slot is rewritten in
\* place (same object, new content).
EmuWritePix ==
  /\ ops < MaxOps
  /\ \E i \in WriteSlots, c \in PixNames :
       /\ ptTile[i] # 0
       /\ tilePix[ptTile[i]] # c
       /\ tilePix' = [tilePix EXCEPT ![ptTile[i]] = c]
  /\ ops' = ops + 1
  /\ UNCHANGED <<palVars, ptTile, ctlVars, ntVars, sprVars, pmVars, rfVars, appVars>>

\* A mapper bank switch (load1kVromBank): the Tile objects of one 1KB region
\* are replaced by those of a VROM bank.
EmuBankSwitch ==
  /\ ops < MaxOps
  /\ \E r \in Regions, bank \in VromBanks :
       /\ ptTile[r * TilesPerRegion] # VromObj(bank, 0)
       /\ ptTile' = [i \in TileIdx |->
                       IF i \div TilesPerRegion = r
                       THEN VromObj(bank, i % TilesPerRegion)
                       ELSE ptTile[i]]
  /\ ops' = ops + 1
  /\ UNCHANGED <<palVars, tilePix, ctlVars, ntVars, sprVars, pmVars, rfVars, appVars>>

\* A mapper that switches CHR banks every frame (MMC3): one 1KB region of
\* each pattern table gets the Tile objects of another bank.  Not counted in
\* ops: bounded by the length of the streak it feeds.
EmuSwapBanks ==
  /\ tc.consecRegenFrames < MaxStreak
  /\ tc.warnings < MaxWarnings
  /\ \E bank \in VromBanks :
       /\ ptTile[0] # VromObj(bank, 0)
       /\ ptTile[TilesPerBank] # VromObj(bank, 0)
       /\ ptTile' = [i \in TileIdx |->
                       IF i \div TilesPerRegion \in {0, RegionsPerBank}
                       THEN VromObj(bank, i % TilesPerRegion)
                       ELSE ptTile[i]]
  /\ UNCHANGED <<palVars, tilePix, ctlVars, ntVars, sprVars, ops, pmVars, rfVars, appVars>>

\* A slot of ppu.ptTile loses its Tile record (the renderer skips a falsy
\* entry).
EmuRemoveTile ==
  /\ ops < MaxOps
  /\ \E i \in WriteSlots :
       /\ ptTile[i] # 0
       /\ ptTile' = [ptTile EXCEPT ![i] = 0]
  /\ ops' = ops + 1
  /\ UNCHANGED <<palVars, tilePix, ctlVars, ntVars, sprVars, pmVars, rfVars, appVars>>

\* A PPUCTRL write flipping the background pattern table.
EmuSetBgPatternTable ==
  /\ ops < MaxOps
  /\ f_bgPatternTable' = 1 - f_bgPatternTable
  /\ ops' = ops + 1
  /\ UNCHANGED <<palVars, chrVars, f_spPatternTable, ntVars, sprVars, pmVars, rfVars, appVars>>

\* A PPUCTRL write flipping the sprite pattern table.
EmuSetSpPatternTable ==
  /\ ops < MaxOps
  /\ f_spPatternTable' = 1 - f_spPatternTable
  /\ ops' = ops + 1
  /\ UNCHANGED <<palVars, chrVars, f_bgPatternTable, ntVars, sprVars, pmVars, rfVars, appVars>>

\* A nametable write: the tile index or the attribute of one cell.
EmuWriteNameTable ==
  /\ ops < MaxOps
  /\ \E p \in WrittenNTs, i \in Cells :
       /\ nameTable[p].present
       /\ \/ \E t \in TileValues :
               /\ t # nameTable[p].tile[i]
               /\ nameTable' = [nameTable EXCEPT ![p].tile[i] = t]
          \/ \E at \in AttribValues :
               /\ at # nameTable[p].attrib[i]
               /\ nameTable' = [nameTable EXCEPT ![p].attrib[i] = at]
  /\ ops' = ops + 1
  /\ UNCHANGED <<palVars, chrVars, ctlVars, ntable1, scrollRegs, f_bgVisibility, sprVars, pmVars, rfVars, appVars>>

\* A PPU configuration with fewer physical nametables: ppu.nameTable[p]
\* becomes null.
EmuUnmapNameTable ==
  /\ ops < MaxOps
  /\ \E p \in UnmappedNTs :
       /\ nameTable[p].present
       /\ nameTable' = [nameTable EXCEPT ![p].present = FALSE]
  /\ ops' = ops + 1
  /\ UNCHANGED <<palVars, chrVars, ctlVars, ntable1, scrollRegs, f_bgVisibility, sprVars, pmVars, rfVars, appVars>>

\* A mapper mirroring change.
EmuSetMirroring ==
  /\ ops < MaxOps
  /\ \E m \in Mirrorings : m # ntable1 /\ ntable1' = m
  /\ ops' = ops + 1
  /\ UNCHANGED <<palVars, chrVars, ctlVars, nameTable, scrollRegs, f_bgVisibility, sprVars, pmVars, rfVars, appVars>>

\* PPUSCROLL / PPUCTRL writes setting the scroll registers.
EmuWriteScroll ==
  /\ ops < MaxOps
  /\ \E r \in ScrollWrites : r # scrollRegs /\ scrollRegs' = r
  /\ ops' = ops + 1
  /\ UNCHANGED <<palVars, chrVars, ctlVars, nameTable, ntable1, f_bgVisibility, sprVars, pmVars, rfVars, appVars>>

\* The first scroll register writes of the run, to any register content.
EmuSetScroll ==
  /\ ops < MaxOps
  /\ scrollRegs = InitPPU.scrollRegs
  /\ \E r \in ScrollStates : r # scrollRegs /\ scrollRegs' = r
  /\ ops' = ops + 1
  /\ UNCHANGED <<palVars, chrVars, ctlVars, nameTable, ntable1, f_bgVisibility, sprVars, pmVars, rfVars, appVars>>

\* OAM writes replacing one sprite.
EmuWriteSprite ==
  /\ ops < MaxSprOps
  /\ \E i \in Slots, w \in SpriteWrites :
       /\ ExtractSprites(PPU)[i] # w
       /\ spr' = [ sprX       |-> [spr.sprX EXCEPT ![i] = w.x],
                   sprY       |-> [spr.sprY EXCEPT ![i] = w.y],
                   sprTile    |-> [spr.sprTile EXCEPT ![i] = w.tileIndex],
                   sprCol     |-> [spr.sprCol EXCEPT ![i] = w.palette],
                   horiFlip   |-> [spr.horiFlip EXCEPT ![i] = w.flipH],
                   vertFlip   |-> [spr.vertFlip EXCEPT ![i] = w.flipV],
                   bgPriority |-> [spr.bgPriority EXCEPT ![i] = w.behindBg] ]
  /\ ops' = ops + 1
  /\ UNCHANGED <<palVars, chrVars, ctlVars, ntVars, f_spriteSize, f_spVisibility,
                 pmVars, rfVars, appVars>>

\* A PPUCTRL write flipping the sprite size.
EmuSetSpriteSize ==
  /\ ops < MaxSprOps
  /\ f_spriteSize' = 1 - f_spriteSize
  /\ ops' = ops + 1
  /\ UNCHANGED <<palVars, chrVars, ctlVars, ntVars, spr, f_spVisibility, pmVars, rfVars, appVars>>

\* A PPUMASK write flipping the sprite visibility.
EmuSetSpVisibility ==
  /\ ops < MaxSprOps
  /\ f_spVisibility' = 1 - f_spVisibility
  /\ ops' = ops + 1
  /\ UNCHANGED <<palVars, chrVars, ctlVars, ntVars, spr, f_spriteSize, pmVars, rfVars, appVars>>

\* A PPUMASK write flipping the background visibility.
EmuSetBgVisibility ==
  /\ ops < MaxOps
  /\ f_bgVisibility' = 1 - f_bgVisibility
  /\ ops' = ops + 1
  /\ UNCHANGED <<palVars, chrVars, ctlVars, nameTable, ntable1, scrollRegs, sprVars, pmVars, rfVars, appVars>>

\* A game that turns background rendering off and on again (PPUMASK writes
\* around its nametable uploads).  Not counted in ops: the flag has two values.
EmuFlipBgVisibility ==
  /\ f_bgVisibility' = 1 - f_bgVisibility
  /\ UNCHANGED <<palVars, chrVars, ctlVars, nameTable, ntable1, scrollRegs, sprVars, ops, pmVars, rfVars, appVars>>

(***************************************************************************)
(* PaletteManager.update called on its own with a by-value copy of the     *)
(* emulator's palettes (PPUStateExtractor.extract: slice(0, 16)).          *)
(***************************************************************************)
PMLogAfter(p1, bgPal, sprPal) ==
  [ calls     |-> 1,
    first     |-> pmLog.calls = 0,
    bgIn      |-> bgPal,
    sprIn     |-> sprPal,
    ret       |-> PMUpdateRet(p1),
    prevBgIn  |-> pmLog.bgIn,
    prevSprIn |-> pmLog.sprIn ]

PMUpdate ==
  /\ pm' = PMUpdateF(pm, imgPalette, sprPalette)
  /\ pmLog' = PMLogAfter(pm', imgPalette, sprPalette)
  /\ UNCHANGED <<envVars, rfVars, appVars>>

NextPM == EmuWriteBgPalette(PalIdx) \/ EmuWriteSprPalette(PalIdx) \/ PMUpdate

SpecPM == Init /\ [][NextPM]_vars

(***************************************************************************)
(* CSSRenderer.renderFrame(extractor.extract()): palette manager update,   *)
(* tile cache update, background layer update, sprite layer update,        *)
(* viewport colour and labels, on one snapshot.  The frame counter and the debug overlay are written   *)
(* by renderFrame and read by none of these.                               *)
(***************************************************************************)
\* The tile cache is updated before the palette manager.
RenderStagesTilesFirst ==
  <<"tileCache", "paletteManager", "bgLayer", "spriteLayer", "viewport">>

\* The stages of renderFrame in the order of its statements.
RenderStages ==
  <<"paletteManager", "tileCache", "bgLayer", "spriteLayer", "viewport">>

\* One statement of renderFrame on the renderer's objects.
RunStage(o, stage, ppuState) ==
  CASE stage = "paletteManager" ->
         [o EXCEPT !.pm = PMUpdateF(o.pm, ppuState.bgPalette, ppuState.sprPalette)]
    [] stage = "tileCache" ->
         [o EXCEPT !.tc = TCUpdateF(o.tc, ppuState.ptTile, o.pm, ppuState.bgPatternBase,
                                    ppuState.sprPatternBase, ppuState.chrBankSignature)]
    [] stage = "bgLayer" ->
         [o EXCEPT !.bg = BGUpdateF(o.bg, ppuState, o.tc)]
    [] stage = "spriteLayer" ->
         [o EXCEPT !.sl = SLUpdateF(o.sl, ppuState, o.tc)]
    [] stage = "viewport" ->
         [o EXCEPT !.vp = LabelViewport(ppuState, o.pm)]

\* The first k stages, one after the other.
RECURSIVE RunStages(_, _, _, _)
RunStages(o, stages, k, ppuState) ==
  IF k = 0 THEN o
  ELSE RunStage(RunStages(o, stages, k - 1, ppuState), stages[k], ppuState)

\* Between two snapshots in a row the content of some slot was replaced by a
\* different content with the same checksum.
ChecksumClash(before, now) ==
  \E i \in TileIdx :
    /\ PixData[now.ptTile[i].pix] # PixData[before.ptTile[i].pix]
    /\ PixHash[now.ptTile[i].pix] = PixHash[before.ptTile[i].pix]

\* renderer.renderFrame(ppuState): the renderer after the pass.
RenderPass(snap) ==
     \E o \in { RunStages([pm |-> pm, tc |-> tc, bg |-> bg, sl |-> sl, vp |-> vp],
                          RenderStages, Len(RenderStages), snap) } :
       /\ pm' = o.pm
       /\ pmLog' = PMLogAfter(o.pm, snap.bgPalette, snap.sprPalette)
       /\ tc' = o.tc
       /\ bg' = o.bg
       /\ sl' = o.sl
       /\ vp' = o.vp
       /\ fl' = [ n     |-> IF fl.n < 2 THEN fl.n + 1 ELSE 2,
                  snap  |-> snap,
                  prev  |-> fl.snap,
                  pmPre |-> pm,
                  tcPre |-> tc,
                  bgPre |-> bg,
                  slPre |-> sl,
                  streak |-> IF o.tc.rendered = Sheets THEN fl.streak + 1 ELSE 0,
                  clash |-> fl.clash \/ (fl.n >= 1 /\ ChecksumClash(fl.snap, snap)) ]

\* One frame of the renderer on the emulator's current state.
RenderFrame ==
  /\ RenderPass(Extract(PPU))
  /\ UNCHANGED <<envVars, appVars>>

\* renderFrame on a snapshot that carries no chrBankSignature: TileCache.update
\* gets undefined for it.
RenderFrameNoSignature ==
  /\ RenderPass([Extract(PPU) EXCEPT !.chrBankSignature = NoSignature])
  /\ UNCHANGED <<envVars, appVars>>

\* What one emulated frame of the loaded game writes: background palette
\* entry 0 (a write of the value already there leaves the palette as it is).
FrameWrites == {0, 255}

\* The emulator after nes.frame() wrote v.
PPUAfterFrame(v) == [PPU EXCEPT !.imgPalette[0] = v]

\* The game loop ignores the pause flag.
GameLoopHaltedIfStopped(a) == ~a.running

\* if (!running || paused) return;   (gameLoop)
GameLoopHalted(a) == ~a.running \/ a.paused

\* if (!running || !paused) return;  (Step click)
StepRefused(a) == ~a.running \/ ~a.paused

\* nes.frame() and the render of latestPPUState to the active mode, as the
\* game loop and the Step handler do them: a, with the frame's snapshot in
\* latestPPUState; the renderer or the comparison canvas after the render.
FrameAndRender(a, handler) ==
  \E v \in FrameWrites :
    LET snap == Extract(PPUAfterFrame(v))
    IN /\ imgPalette' = [imgPalette EXCEPT ![0] = v]
       /\ UNCHANGED <<sprPalette, chrVars, ctlVars, ntVars, sprVars, ops>>
       /\ IF a.canvasMode
          THEN /\ app' = [a EXCEPT !.latestPPUState = <<snap>>, !.compareCanvas = <<snap>>]
               /\ ev' = [handler |-> handler, calls |-> <<"nes.frame", "renderCanvasFrame">>]
               /\ UNCHANGED <<pmVars, rfVars>>
          ELSE /\ app' = [a EXCEPT !.latestPPUState = <<snap>>]
               /\ ev' = [handler |-> handler, calls |-> <<"nes.frame", "renderFrame">>]
               /\ RenderPass(snap)

\* loadROM(data): initNES() makes a new emulator and extractor; nes.loadROM
\* either throws (ok = FALSE) or succeeds, and then the loop is started.
LoadROM(ok) ==
  /\ app.nes < MaxLoads
  /\ UNCHANGED held
  /\ ev' = [handler |-> "loadROM", calls |-> <<>>]
  /\ IF ok
     THEN /\ app' = [app EXCEPT !.nes = app.nes + 1, !.extractor = app.nes + 1,
                                !.romLoaded = TRUE,
                                !.running = TRUE, !.paused = FALSE,
                                !.statusBar = "Running",
                                !.rafId = "pending", !.pending = app.pending + 1]
          /\ imgPalette' = InitPPU.imgPalette
          /\ sprPalette' = InitPPU.sprPalette
          /\ ptTile' = InitPPU.ptTile
          /\ tilePix' = InitPPU.tilePix
          /\ f_bgPatternTable' = InitPPU.f_bgPatternTable
          /\ f_spPatternTable' = InitPPU.f_spPatternTable
          /\ nameTable' = InitPPU.nameTable
          /\ ntable1' = InitPPU.ntable1
          /\ scrollRegs' = InitPPU.scrollRegs
          /\ f_bgVisibility' = InitPPU.f_bgVisibility
          /\ spr' = [ sprX |-> InitPPU.sprX, sprY |-> InitPPU.sprY,
                      sprTile |-> InitPPU.sprTile, sprCol |-> InitPPU.sprCol,
                      horiFlip |-> InitPPU.horiFlip, vertFlip |-> InitPPU.vertFlip,
                      bgPriority |-> InitPPU.bgPriority ]
          /\ f_spriteSize' = InitPPU.f_spriteSize
          /\ f_spVisibility' = InitPPU.f_spVisibility
          /\ UNCHANGED <<ops, pmVars, rfVars>>
     ELSE /\ app' = [app EXCEPT !.nes = app.nes + 1, !.extractor = app.nes + 1,
                                !.romLoaded = FALSE, !.statusBar = "Error"]
          /\ UNCHANGED <<envVars, pmVars, rfVars>>

\* The browser runs one pending gameLoop callback: the one rafId names
\* (own) or another one.
GameLoop ==
  /\ app.pending > 0
  /\ UNCHANGED held
  /\ \E own \in BOOLEAN :
       /\ own => app.rafId = "pending"
       /\ ~own => app.pending > (IF app.rafId = "pending" THEN 1 ELSE 0)
       /\ LET fired == [app EXCEPT !.pending = app.pending - 1,
                                   !.rafId = IF own THEN "gone" ELSE app.rafId]
              again == [fired EXCEPT !.pending = fired.pending + 1, !.rafId = "pending"]
          IN IF GameLoopHalted(app)
             THEN /\ app' = fired
                  /\ ev' = [handler |-> "gameLoop", calls |-> <<>>]
                  /\ UNCHANGED <<envVars, pmVars, rfVars>>
             ELSE \/ /\ app' = again          \* elapsed < 14: throttled
                     /\ ev' = [handler |-> "gameLoop", calls |-> <<>>]
                     /\ UNCHANGED <<envVars, pmVars, rfVars>>
                  \/ /\ app.romLoaded
                     /\ FrameAndRender(again, "gameLoop")

\* updateButtonStates(): btnPause.disabled = !running and
\* btnToggleCanvas.disabled = !running.  It runs when the script starts and
\* after every assignment to running or paused; a disabled button gets no
\* click.
ButtonDisabled(a) == ~a.running

\* AnnotationPopover.isVisible
IsVisible(a) == a.popover # "none"

\* AnnotationPopover.dismiss()
Dismiss(a) == [a EXCEPT !.popover = "none", !.highlight = "none"]

\* What a click in the viewport lands on: a background tile element, a
\* sprite element, or anything else (the popover, the backdrop).
ClickTargets == {"bg-tile", "sprite", "other"}

\* AnnotationPopover._onClick(e): the page after the handler.  _showBgTile
\* and _showSprite end with _positionPopover and _positionHighlight, which
\* clear both display styles.
OnClick(a, target) ==
  IF ~a.viewportPaused THEN a
  ELSE IF target = "other" THEN Dismiss(a)
  ELSE IF a.latestPPUState = <<>> THEN a
  ELSE [a EXCEPT !.popover = "", !.highlight = ""]

\* A click inside the viewport (none reaches it while the wrapper is hidden
\* by the canvas mode).
ViewportClick ==
  /\ app.wrapperDisplay = ""
  /\ \E target \in ClickTargets :
       /\ app' = OnClick(app, target)
       /\ ev' = [handler |-> "click " \o target, calls |-> <<>>]
  /\ UNCHANGED <<held, envVars, pmVars, rfVars>>

\* btnPause click
PauseClick ==
  /\ ~ButtonDisabled(app)
  /\ ev' = [handler |-> "pause", calls |-> <<>>]
  /\ UNCHANGED held
  /\ IF app.paused
     THEN app' = [Dismiss(app) EXCEPT !.paused = FALSE, !.viewportPaused = FALSE,
                             !.statusBar = "Running",
                             !.rafId = "pending", !.pending = app.pending + 1]
     ELSE app' = [app EXCEPT !.paused = TRUE, !.viewportPaused = TRUE,
                             !.statusBar = "Paused",
                             !.rafId = IF app.rafId = "pending" THEN "gone" ELSE app.rafId,
                             !.pending = IF app.rafId = "pending" THEN app.pending - 1
                                         ELSE app.pending]
  /\ UNCHANGED <<envVars, pmVars, rfVars>>

\* btnStep click
StepClick ==
  IF StepRefused(app)
  THEN /\ ev' = [handler |-> "step", calls |-> <<>>]
       /\ UNCHANGED <<app, held, envVars, pmVars, rfVars>>
  ELSE /\ app.romLoaded
       /\ UNCHANGED held
       /\ FrameAndRender([app EXCEPT !.statusBar = "Paused - Frame"], "step")

\* btnToggleCanvas click
ToggleCanvasClick ==
  /\ ~ButtonDisabled(app)
  /\ app' = [app EXCEPT !.canvasMode = ~app.canvasMode,
                        !.wrapperDisplay = IF app.canvasMode THEN "" ELSE "none"]
  /\ ev' = [handler |-> "toggleCanvas", calls |-> <<>>]
  /\ UNCHANGED held
  /\ UNCHANGED <<envVars, pmVars, rfVars>>

\* A session in the browser with ROMs that load.
NextRun ==
  \/ LoadROM(TRUE)
  \/ GameLoop
  \/ PauseClick
  \/ StepClick
  \/ ToggleCanvasClick

SpecRun == Init /\ [][NextRun]_vars

\* A session with clicks in the viewport.
NextAnnot ==
  \/ LoadROM(TRUE)
  \/ GameLoop
  \/ PauseClick
  \/ StepClick
  \/ ViewportClick

SpecAnnot == Init /\ [][NextAnnot]_vars

\* A session in which a ROM file may be rejected by nes.loadROM.
NextLoadFail ==
  \/ LoadROM(TRUE)
  \/ LoadROM(FALSE)
  \/ GameLoop
  \/ PauseClick
  \/ StepClick

SpecLoadFail == Init /\ [][NextLoadFail]_vars

\* Palette, CHR and pattern-table traffic between frames.
NextTC ==
  \/ EmuWriteBgPalette(FramePalIdx)
  \/ EmuWriteSprPalette(FramePalIdx)
  \/ EmuWritePix
  \/ EmuBankSwitch
  \/ EmuSetBgPatternTable
  \/ EmuSetSpPatternTable
  \/ RenderFrame

SpecTC == Init /\ [][NextTC]_vars

\* The first snapshot comes from PPUStateExtractor; the later ones come from a
\* caller that supplies no bank signature, while banks are switched, the
\* background palette is written and the background pattern table is flipped.
FirstFrameSigned == fl.n = 0 /\ RenderFrame

NextNoSig ==
  \/ EmuBankSwitch
  \/ EmuWriteBgPalette(FramePalIdx)
  \/ EmuSetBgPatternTable
  \/ FirstFrameSigned
  \/ RenderFrameNoSignature

SpecNoSig == Init /\ [][NextNoSig]_vars

\* extract() is called and the caller keeps the snapshot; taken records the
\* emulator's palettes at the time of the call.
ExtractCall ==
  /\ held' = << [ bgPalette  |-> PaletteCopy("imgPalette", PPU),
                  sprPalette |-> PaletteCopy("sprPalette", PPU),
                  taken      |-> [bg |-> imgPalette, spr |-> sprPalette] ] >>
  /\ UNCHANGED <<envVars, pmVars, rfVars, app, ev>>

\* Snapshots that are kept while the emulator goes on writing its palettes.
NextExtract ==
  \/ ExtractCall
  \/ EmuWriteBgPalette(FramePalIdx)
  \/ EmuWriteSprPalette(FramePalIdx)

SpecExtract == Init /\ [][NextExtract]_vars

\* The tile cache with tile records that go missing.
NextHoles ==
  \/ EmuRemoveTile
  \/ EmuWritePix
  \/ EmuWriteBgPalette(FramePalIdx)
  \/ EmuWriteSprPalette(FramePalIdx)
  \/ RenderFrame

SpecHoles == Init /\ [][NextHoles]_vars

\* The tile cache under a mapper that switches banks every frame: frames that
\* regenerate every sheet, frames that regenerate some, frames that
\* regenerate none.
NextWarn ==
  \/ EmuSwapBanks
  \/ EmuSetBgPatternTable
  \/ RenderFrame

SpecWarn == Init /\ [][NextWarn]_vars

\* Nametable, mirroring, scroll and visibility traffic between frames, with
\* background palette writes to have BG sheets regenerated.
NextBG ==
  \/ EmuWriteNameTable
  \/ EmuUnmapNameTable
  \/ EmuSetMirroring
  \/ EmuWriteScroll
  \/ EmuSetBgVisibility
  \/ EmuWriteBgPalette(BgFramePalIdx)
  \/ RenderFrame

SpecBG == Init /\ [][NextBG]_vars

\* Nametable and scroll writes while the background is turned off and on.
NextHide ==
  \/ EmuWriteNameTable
  \/ EmuWriteScroll
  \/ EmuFlipBgVisibility
  \/ RenderFrame

SpecHide == Init /\ [][NextHide]_vars

\* OAM and sprite control traffic between frames.
NextSpr ==
  \/ EmuWriteSprite
  \/ EmuSetSpriteSize
  \/ EmuSetSpVisibility
  \/ EmuSetSpPatternTable
  \/ RenderFrame

SpecSpr == Init /\ [][NextSpr]_vars

\* Frames under every scroll position.
NextScroll ==
  \/ EmuSetScroll
  \/ EmuSetBgVisibility
  \/ RenderFrame

SpecScroll == Init /\ [][NextScroll]_vars

(***************************************************************************)
(* Claims about TileCache.update, over the frames rendered by SpecTC.      *)
(* fl.snap is the snapshot of the latest frame, fl.prev that of the frame  *)
(* before it, fl.tcPre the cache as the latest call found it.              *)
(***************************************************************************)
FirstFrame == fl.n = 1
LaterFrame == fl.n = 2

\* The sheets _renderSheet was called for during the latest update.
Regenerated == tc.rendered

BgSheets == 0 .. 3
SprSheets(bank) == {4 + 4 * bank + g : g \in Groups}

BankOf(i) == i \div TilesPerBank
RegionOf(i) == i \div TilesPerRegion
BankOfRegion(r) == r \div RegionsPerBank
BgBank == IF fl.snap.bgPatternBase = 0 THEN 0 ELSE 1

SamePalettes ==
  /\ fl.snap.bgPalette = fl.prev.bgPalette
  /\ fl.snap.sprPalette = fl.prev.sprPalette
SameBgBase == fl.snap.bgPatternBase = fl.prev.bgPatternBase
SameSignature == fl.snap.chrBankSignature = fl.prev.chrBankSignature
SameTile(i) == fl.snap.ptTile[i] = fl.prev.ptTile[i]
SameTiles == \A i \in TileIdx : SameTile(i)

\* C1: the first update of a fresh cache (after the palette manager's first
\* update) regenerates all 12 sheets; an update whose tiles, palettes, bgBase
\* and bank signature are those of the previous update regenerates none.
C1_FirstAllThenNone ==
  /\ FirstFrame => Regenerated = Sheets
  /\ (LaterFrame /\ SameTiles /\ SamePalettes /\ SameBgBase /\ SameSignature)
       => Regenerated = {}

C1_Witness ==
  /\ LaterFrame /\ SameTiles /\ SamePalettes /\ SameBgBase /\ SameSignature
  /\ fl.tcPre.rendered = Sheets
  /\ Regenerated = {}

\* Region r alone was bank-switched since the previous update: every tile of
\* r is another object, everything else is as it was.
RegionSwitched(r) ==
  /\ LaterFrame /\ SamePalettes /\ SameBgBase
  /\ \A i \in TileIdx :
       IF RegionOf(i) = r
       THEN fl.snap.ptTile[i].ref # fl.prev.ptTile[i].ref
       ELSE SameTile(i)

\* C2: after a bank switch of exactly one 1KB region, the update regenerates
\* the four sprite sheets of the region's bank, the four BG sheets when bgBase
\* selects that bank, and no other sheet.
C2_BankSwitchIsolation ==
  \A r \in Regions :
    RegionSwitched(r) =>
      Regenerated = SprSheets(BankOfRegion(r))
                      \cup (IF BgBank = BankOfRegion(r) THEN BgSheets ELSE {})

\* Region 1 was switched to a bank with the same pixel content, bgBase = 0.
C2_Witness ==
  /\ RegionSwitched(1)
  /\ \A i \in TileIdx : fl.snap.ptTile[i].pix = fl.prev.ptTile[i].pix
  /\ BgBank = 0
  /\ Regenerated = SprSheets(0) \cup BgSheets

\* The pix of the tile in slot i alone was rewritten in place since the
\* previous update: same objects, same signature, same palettes and bgBase.
InPlaceChange(i) ==
  /\ LaterFrame /\ SamePalettes /\ SameBgBase /\ SameSignature
  /\ \A j \in TileIdx : fl.snap.ptTile[j].ref = fl.prev.ptTile[j].ref
  /\ \A j \in TileIdx \ {i} : SameTile(j)
  /\ PixData[fl.snap.ptTile[i].pix] # PixData[fl.prev.ptTile[i].pix]

\* C3: an in-place change of the pix of tile i makes the next update
\* regenerate the four sprite sheets of i's bank, the four BG sheets if
\* bgBase selects that bank, and no sprite sheet of the other bank.
C3_InPlaceChangeDetected ==
  \A i \in TileIdx :
    InPlaceChange(i) =>
      /\ SprSheets(BankOf(i)) \subseteq Regenerated
      /\ BgBank = BankOf(i) => BgSheets \subseteq Regenerated
      /\ SprSheets(1 - BankOf(i)) \cap Regenerated = {}

\* Switch-dirty: a region token of the bank differs from the one stored at
\* the end of the previous call.  Content-dirty: a tile of the bank hashes to
\* another checksum than the stored one.
SwitchDirty(bank) ==
  \E r \in Regions :
    /\ BankOfRegion(r) = bank
    /\ fl.snap.chrBankSignature[r] # fl.tcPre.prevBankRefs[r]
ContentDirty(bank) ==
  \E i \in TileIdx :
    /\ BankOf(i) = bank
    /\ PixHash[fl.snap.ptTile[i].pix] # fl.tcPre.tileChecksums[i]
BankDirty(bank) == SwitchDirty(bank) \/ ContentDirty(bank)

\* Only background palette entry i differs from the previous frame.
OnlyBgPaletteEntryChanged(i) ==
  /\ LaterFrame /\ SameTiles /\ SameBgBase /\ SameSignature
  /\ fl.snap.sprPalette = fl.prev.sprPalette
  /\ \A k \in PalIdx : (fl.snap.bgPalette[k] # fl.prev.bgPalette[k]) <=> (k = i)

\* Only tiles of the bank bgBase does not select differ from the previous frame.
OnlyOtherBankChanged ==
  /\ LaterFrame /\ SamePalettes /\ SameBgBase
  /\ \A i \in TileIdx : BankOf(i) = BgBank => SameTile(i)
  /\ \E i \in TileIdx : ~SameTile(i)

\* C4: BG sheet g is regenerated iff g is in the background dirty set, or the
\* bank bgBase selects is dirty, or bgBase is not that of the previous call.
\* One changed background palette entry regenerates that group's BG sheet
\* alone; a change confined to the other bank regenerates no BG sheet.
C4_BgSheetRule ==
  /\ fl.n >= 1 =>
       \A g \in Groups :
         g \in Regenerated <=>
           \/ g \in pm.dirtyBgGroups
           \/ BankDirty(BgBank)
           \/ fl.snap.bgPatternBase # fl.tcPre.prevBgBase
  /\ \A i \in PalIdx : OnlyBgPaletteEntryChanged(i) => Regenerated = {i \div 4}
  /\ OnlyOtherBankChanged => Regenerated \cap BgSheets = {}

C4_Witness ==
  /\ OnlyBgPaletteEntryChanged(9)
  /\ Regenerated = {2}

\* C5: the sprite sheet of (bank, g) is regenerated iff g is in the sprite
\* dirty set or the bank is dirty, and the update regenerates the same sheets
\* for sprBase 0 and for sprBase 256.
C5_SprSheetRule ==
  fl.n >= 1 =>
    /\ \A bank \in {0, 1}, g \in Groups :
         (4 + 4 * bank + g) \in Regenerated <=>
           (g \in pm.dirtySprGroups \/ BankDirty(bank))
    /\ \A sprBase \in {0, TilesPerBank} :
         TCUpdateF(fl.tcPre, fl.snap.ptTile, pm, fl.snap.bgPatternBase, sprBase,
                   fl.snap.chrBankSignature).rendered = Regenerated

\* sprBase selects bank 1, and the sprite sheets of bank 0 alone are regenerated.
C5_Witness ==
  /\ LaterFrame
  /\ fl.snap.sprPatternBase = TilesPerBank
  /\ SprSheets(0) \subseteq Regenerated
  /\ SprSheets(1) \cap Regenerated = {}

\* C6: after an update, bgSheetUpdated(g) holds iff BG sheet g was regenerated
\* by that update, and sprSheetUpdated(g) iff the sprite sheet of g in bank 0
\* or bank 1 was; sheets of earlier updates are not reported.
C6_UpdatedIsThisCall ==
  \A g \in Groups :
    /\ BgSheetUpdated(tc, g) <=> g \in Regenerated
    /\ SprSheetUpdated(tc, g) <=> ((4 + g) \in Regenerated \/ (8 + g) \in Regenerated)

\* The previous update regenerated everything, the latest one the sprite
\* sheets of group 2.
C6_Witness ==
  /\ LaterFrame
  /\ fl.tcPre.updatedSheets = Sheets
  /\ Regenerated = {6, 10}
  /\ SprSheetUpdated(tc, 2) /\ ~SprSheetUpdated(tc, 0) /\ ~BgSheetUpdated(tc, 2)

(***************************************************************************)
(* Claims about PaletteManager, checked under SpecPM.                      *)
(* pmLog.bgIn / sprIn are the arguments of the latest update call and      *)
(* pmLog.prevBgIn / prevSprIn those of the call before it (the sentinel -1 *)
(* in every entry when the latest call is the first one).                  *)
(***************************************************************************)
PMCalled == pmLog.calls > 0
PMSameInput == pmLog.bgIn = pmLog.prevBgIn /\ pmLog.sprIn = pmLog.prevSprIn

\* C7: an update call whose background and sprite palettes are identical to
\* those of the previous call returns false and leaves both dirty-group
\* sets empty, whatever the earlier calls were.
C7_SameInputNoChange ==
  (PMCalled /\ ~pmLog.first /\ PMSameInput)
    => (pmLog.ret = FALSE /\ pm.dirtyBgGroups = {} /\ pm.dirtySprGroups = {})

\* C7 witness: a repeated call with identical, non-initial palettes.
C7_Witness ==
  /\ PMCalled /\ ~pmLog.first /\ PMSameInput
  /\ \E i \in PalIdx : pmLog.bgIn[i] # 0
  /\ \E i \in PalIdx : pmLog.sprIn[i] # 0

ChangedGroups(cur, prev) ==
  {g \in Groups : \E k \in 0..3 : cur[4 * g + k] # prev[4 * g + k]}

\* C8: after every update call each role's dirty set is exactly the set of
\* groups i div 4 of the entries i that differ from the previous call's input
\* (from the sentinel -1 on the first call, when all 4 groups of both roles
\* are dirty and the call returns true); one role's change marks nothing in
\* the other role's set; the call returns true iff some entry differed.
C8_DirtyGroupsExact ==
  PMCalled =>
    /\ pm.dirtyBgGroups = ChangedGroups(pmLog.bgIn, pmLog.prevBgIn)
    /\ pm.dirtySprGroups = ChangedGroups(pmLog.sprIn, pmLog.prevSprIn)
    /\ pmLog.ret = ~PMSameInput
    /\ pmLog.ret = (pm.dirtyBgGroups # {} \/ pm.dirtySprGroups # {})
    /\ pmLog.first => (pm.dirtyBgGroups = Groups /\ pm.dirtySprGroups = Groups /\ pmLog.ret)

\* C8 witness: a later call in which exactly one background entry (of group 2
\* or 3) changed and no sprite entry did.
C8_Witness ==
  /\ PMCalled /\ ~pmLog.first
  /\ pmLog.sprIn = pmLog.prevSprIn
  /\ \E i \in 8..15 :
       /\ \A j \in PalIdx : (pmLog.bgIn[j] # pmLog.prevBgIn[j]) <=> (j = i)
       /\ pm.dirtyBgGroups = {i \div 4}
       /\ pm.dirtySprGroups = {}

\* Two lowercase hex digits of a byte.
Hex2(byte) == HexDigits[(byte \div 16) + 1] \o HexDigits[(byte % 16) + 1]

\* The display colour of a packed value: red from bits 0-7, green from bits
\* 8-15, blue from bits 16-23, written '#rrggbb'.
DisplayColor(packed) ==
  "#" \o Hex2(packed % 256) \o Hex2((packed \div 256) % 256) \o Hex2((packed \div 65536) % 256)

SameNameTables == fl.snap.nameTables = fl.prev.nameTables
SameMirrorMap == fl.snap.mirrorMap = fl.prev.mirrorMap
NoBgSheetReported == \A g \in Groups : ~BgSheetUpdated(tc, g)

\* Sheet position, class and metadata of every cell, and the baselines.
CellState(b) ==
  [ prevTile |-> b.prevTile, prevAttrib |-> b.prevAttrib, quadTileDivs |-> b.quadTileDivs ]

\* The latest call skipped every cell and left every cell as it was.
NoCellWritten == bg.written = {} /\ CellState(bg) = CellState(fl.bgPre)

\* C10 as stated: of two consecutive updates with identical nametable data
\* and mirror map, the second, during which no BG sheet is reported
\* regenerated, writes no cell.
C10_SecondCallWritesNothing ==
  (LaterFrame /\ SameNameTables /\ SameMirrorMap /\ NoBgSheetReported)
    => NoCellWritten

\* C10: of two consecutive updates with identical nametable data and mirror
\* map, the first with the background visible, the second, during which no
\* BG sheet is reported regenerated, writes no cell.
C10_SecondCallWritesNothingAfterVisible ==
  (LaterFrame /\ SameNameTables /\ SameMirrorMap /\ NoBgSheetReported
     /\ fl.prev.bgVisible)
    => NoCellWritten

\* Both calls with the background visible; the first wrote cells, one of them
\* showing tile 42.
C10_Witness ==
  /\ LaterFrame /\ SameNameTables /\ SameMirrorMap /\ NoBgSheetReported
  /\ fl.prev.bgVisible /\ fl.snap.bgVisible
  /\ fl.bgPre.written # {}
  /\ \E q \in Quadrants, i \in Cells : bg.prevTile[q][i] = 42
  /\ NoCellWritten

\* The physical nametable quadrant q is mapped to in the latest snapshot.
MappedNT(q) == fl.snap.nameTables[fl.snap.mirrorMap[q]]

\* Quadrant q shows the data of its mapped nametable: recorded physical
\* index, baselines, sheet position, class and metadata of every cell.
QuadrantShowsMappedNT(q) ==
  /\ bg.physNt[q] = ToString(fl.snap.mirrorMap[q])
  /\ \A i \in Cells :
       /\ bg.prevTile[q][i] = MappedNT(q).tile[i]
       /\ bg.prevAttrib[q][i] = MappedNT(q).attrib[i]
       /\ bg.quadTileDivs[q][i].backgroundPosition = GetTilePosition(MappedNT(q).tile[i])
       /\ bg.quadTileDivs[q][i].className
            = "bg-tile bg-pal-" \o ToString(MappedNT(q).attrib[i] \div 4)
       /\ bg.quadTileDivs[q][i].tileIdx = ToString(MappedNT(q).tile[i])
       /\ bg.quadTileDivs[q][i].palette = ToString(MappedNT(q).attrib[i] \div 4)

\* The latest call left quadrant q as it found it.
QuadrantUntouched(q) ==
  /\ bg.physNt[q] = fl.bgPre.physNt[q]
  /\ bg.prevTile[q] = fl.bgPre.prevTile[q]
  /\ bg.prevAttrib[q] = fl.bgPre.prevAttrib[q]
  /\ bg.quadTileDivs[q] = fl.bgPre.quadTileDivs[q]
  /\ \A i \in Cells : <<q, i>> \notin bg.written

\* Two quadrants mapped to the same present nametable show the same tile at
\* every slot.
SameNTSameTiles ==
  \A q1, q2 \in Quadrants :
    (fl.snap.mirrorMap[q1] = fl.snap.mirrorMap[q2] /\ MappedNT(q1).present)
      => \A i \in Cells :
           bg.quadTileDivs[q1][i].backgroundPosition
             = bg.quadTileDivs[q2][i].backgroundPosition

QuadrantsFollowMirrorMap ==
  /\ \A q \in Quadrants :
       IF MappedNT(q).present THEN QuadrantShowsMappedNT(q) ELSE QuadrantUntouched(q)
  /\ SameNTSameTiles

\* C11 as stated: after BGLayer.update every quadrant shows the nametable
\* mirrorMap[q] of the current snapshot, quadrants mapped to the same
\* nametable show the same tiles, and a quadrant whose nametable is null is
\* left as it was.
C11_QuadrantsFollowMirrorMap == fl.n >= 1 => QuadrantsFollowMirrorMap

\* C11: after a BGLayer.update with the background visible every quadrant
\* shows the nametable mirrorMap[q] of the current snapshot, quadrants mapped
\* to the same nametable show the same tiles, and a quadrant whose nametable
\* is null is left as it was.
C11_QuadrantsFollowMirrorMapWhenVisible ==
  (fl.n >= 1 /\ fl.snap.bgVisible) => QuadrantsFollowMirrorMap

\* Quadrants 2 and 3 were filled by an earlier frame; their nametable is now
\* null and they are left alone while quadrants 0 and 1 both show nametable 0.
C11_Witness ==
  /\ LaterFrame /\ fl.snap.bgVisible
  /\ ~MappedNT(2).present
  /\ bg.prevTile[2][0] # -1
  /\ bg.physNt[2] = "1"
  /\ QuadrantUntouched(2)
  /\ fl.snap.mirrorMap[0] = fl.snap.mirrorMap[1]
  /\ QuadrantShowsMappedNT(1)

(***************************************************************************)
(* Claims about the scroll handling of BGLayer.update, over the frames of  *)
(* SpecScroll.                                                             *)
(***************************************************************************)
\* The pixel count of a style length such as "512px" (-1 if it is none of
\* the candidates).
PxOf(str, candidates) ==
  IF \E n \in candidates : str = ToString(n) \o "px"
  THEN CHOOSE n \in candidates : str = ToString(n) \o "px"
  ELSE -1

\* Where the latest update left quadrant q in the nametable plane.
LeftOf(q) == PxOf(bg.left[q], {0, 256, 512, 768})
TopOf(q) == PxOf(bg.top[q], {0, 240, 480, 720})

\* The scroll position of the latest snapshot.
SnapScrollX ==
  fl.snap.scroll.coarseX * 8 + fl.snap.scroll.fineX + fl.snap.scroll.nameTableH * 256
SnapScrollY ==
  fl.snap.scroll.coarseY * 8 + fl.snap.scroll.fineY + fl.snap.scroll.nameTableV * 240

\* The positions of the four quadrants, quadrant q at index q + 1.
Lefts == <<LeftOf(0), LeftOf(1), LeftOf(2), LeftOf(3)>>
Tops == <<TopOf(0), TopOf(1), TopOf(2), TopOf(3)>>

\* A quadrant is the rectangle [left, left + 256) x [top, top + 240): it
\* covers the point (x, y) iff its columns cover x and its rows cover y.
ColumnsCover(left, q, x) == left[q + 1] <= x /\ x < left[q + 1] + 256
RowsCover(top, q, y) == top[q + 1] <= y /\ y < top[q + 1] + 240

QuadrantsDisjoint(left, top) ==
  \A q1, q2 \in Quadrants :
    q1 # q2 =>
      \/ left[q1 + 1] + 256 <= left[q2 + 1] \/ left[q2 + 1] + 256 <= left[q1 + 1]
      \/ top[q1 + 1] + 240 <= top[q2 + 1] \/ top[q2 + 1] + 240 <= top[q1 + 1]

\* Every point (x, y) of the viewport is covered by the quadrant
\* 2 * ((y mod 480) div 240) + ((x mod 512) div 256) and by no other: stated
\* per axis, a quadrant covers x iff its column q mod 2 is (x mod 512) div 256
\* and covers y iff its row q div 2 is (y mod 480) div 240.
ViewportCovered(left, top, sx, sy) ==
  /\ \A x \in sx .. (sx + 255) :
       \A q \in Quadrants : ColumnsCover(left, q, x) <=> (q % 2 = (x % 512) \div 256)
  /\ \A y \in sy .. (sy + 239) :
       \A q \in Quadrants : RowsCover(top, q, y) <=> (q \div 2 = (y % 480) \div 240)

\* A quadrant is moved by 512 (480) exactly when its base + 256 (240) is at
\* or behind the scroll origin.
MovedExactlyWhenBehind(left, top, sx, sy) ==
  \A q \in Quadrants :
    /\ left[q + 1] = (q % 2) * 256 + (IF (q % 2) * 256 + 256 <= sx THEN 512 ELSE 0)
    /\ top[q + 1] = (q \div 2) * 240 + (IF (q \div 2) * 240 + 240 <= sy THEN 480 ELSE 0)

ScrollWrapAt(left, top, sx, sy) ==
  /\ QuadrantsDisjoint(left, top)
  /\ ViewportCovered(left, top, sx, sy)
  /\ MovedExactlyWhenBehind(left, top, sx, sy)

ScrollWrapCorrect ==
  /\ DOMAIN bg.left = Quadrants /\ DOMAIN bg.top = Quadrants
  /\ ScrollWrapAt(Lefts, Tops, SnapScrollX, SnapScrollY)

\* C12 as stated: after BGLayer.update, for every scroll state, the four
\* quadrants are disjoint, cover the viewport, each point by the quadrant of
\* its plane position, and a quadrant is moved exactly when it is behind the
\* scroll origin.
C12_ScrollWrap == fl.n >= 1 => ScrollWrapCorrect

\* C12: after a BGLayer.update with the background visible, for every scroll
\* state, the four quadrants are disjoint, cover the viewport, each point by
\* the quadrant of its plane position, and a quadrant is moved exactly when
\* it is behind the scroll origin.
C12_ScrollWrapWhenVisible == (fl.n >= 1 /\ fl.snap.bgVisible) => ScrollWrapCorrect

\* Scroll (511, 495): both columns and both rows are in their moved/unmoved
\* extreme, quadrant 0 at (512, 480) and quadrant 3 at (256, 720).
C12_Witness ==
  /\ fl.n >= 1 /\ fl.snap.bgVisible
  /\ SnapScrollX = 511 /\ SnapScrollY = 495
  /\ LeftOf(0) = 512 /\ TopOf(0) = 480
  /\ LeftOf(3) = 256 /\ TopOf(3) = 720
  /\ ScrollWrapCorrect

(***************************************************************************)
(* Claims about the scroll position, over the frames of SpecScroll.        *)
(***************************************************************************)
\* The translation of the background layer for a scroll position.
TranslationOf(sx, sy) ==
  "translate(" \o ToString(0 - sx) \o "px, " \o ToString(0 - sy) \o "px)"

\* BGLayer.update applies a translation in the calls with the background
\* visible; in the others it leaves the one it finds.
TranslationApplied ==
  IF fl.snap.bgVisible
  THEN bg.transform = TranslationOf(SnapScrollX, SnapScrollY)
  ELSE bg.transform = fl.bgPre.transform

ScrollPublished ==
  /\ vp.scrollX = ToString(SnapScrollX)
  /\ vp.scrollY = ToString(SnapScrollY)

\* C13: with scrollX = coarseX*8 + fineX + nameTableH*256 and scrollY =
\* coarseY*8 + fineY + nameTableV*240, the translation BGLayer.update applies
\* is (-scrollX, -scrollY) and renderFrame publishes the same scrollX and
\* scrollY for the snapshot.
C13_ScrollPosition == fl.n >= 1 => (TranslationApplied /\ ScrollPublished)

\* coarseX = 10, fineX = 3, nameTableH = 1 gives 339; coarseY = 31, fineY = 7,
\* nameTableV = 1 gives 495.
C13_Witness ==
  /\ fl.n >= 1 /\ fl.snap.bgVisible
  /\ fl.snap.scroll.coarseX = 10 /\ fl.snap.scroll.fineX = 3
  /\ fl.snap.scroll.nameTableH = 1
  /\ fl.snap.scroll.coarseY = 31 /\ fl.snap.scroll.fineY = 7
  /\ fl.snap.scroll.nameTableV = 1
  /\ bg.transform = "translate(-339px, -495px)"
  /\ vp.scrollX = "339" /\ vp.scrollY = "495"

(***************************************************************************)
(* Claims about the order of the stages of renderFrame, over the frames of *)
(* SpecBG.                                                                 *)
(***************************************************************************)
\* The objects after the latest frame are those of one palette manager
\* update, then one tile cache update reading that palette manager, then one
\* background update and one sprite update reading that tile cache.
StagesOnceInOrder ==
  /\ pm = PMUpdateF(fl.pmPre, fl.snap.bgPalette, fl.snap.sprPalette)
  /\ tc = TCUpdateF(fl.tcPre, fl.snap.ptTile, pm, fl.snap.bgPatternBase,
                    fl.snap.sprPatternBase, fl.snap.chrBankSignature)
  /\ bg = BGUpdateF(fl.bgPre, fl.snap, tc)
  /\ sl = SLUpdateF(fl.slPre, fl.snap, tc)

\* The palette entries changed since the frame before dirty their groups in
\* this frame, and the sheets of these groups are regenerated in this frame.
SheetsFollowPalette ==
  /\ \A i \in PalIdx :
       (fl.n = 1 \/ fl.snap.bgPalette[i] # fl.prev.bgPalette[i]) => (i \div 4) \in Regenerated
  /\ \A i \in PalIdx :
       (fl.n = 1 \/ fl.snap.sprPalette[i] # fl.prev.sprPalette[i]) =>
          {4 + (i \div 4), 8 + (i \div 4)} \subseteq Regenerated

\* A visible background has written every cell whose sheet was regenerated
\* in this frame.
CellsFollowSheets ==
  fl.snap.bgVisible =>
    \A q \in Quadrants, i \in Cells :
      (MappedNT(q).present /\ (MappedNT(q).attrib[i] \div 4) \in Regenerated)
        => <<q, i>> \in bg.written

\* C14: every renderFrame runs the palette manager update, the tile cache
\* update, the background update and the sprite update once each in this
\* order: the tile cache reads the dirty sets of the same frame and the
\* background layer the updated sheets of the same frame.
C14_StagesOnceInOrder ==
  fl.n >= 1 => (StagesOnceInOrder /\ SheetsFollowPalette /\ CellsFollowSheets)

\* A later frame with one background palette entry changed: sheet 1 alone is
\* regenerated among the BG sheets, and the visible background, whose cells
\* are all of group 0, writes none.
C14_Witness ==
  /\ LaterFrame /\ fl.snap.bgVisible /\ fl.prev.bgVisible
  /\ fl.snap.bgPalette # fl.prev.bgPalette
  /\ pm.dirtyBgGroups = {1}
  /\ Regenerated \cap BgSheets = {1}
  /\ bg.written = {}
  /\ StagesOnceInOrder

(***************************************************************************)
(* Claims about SpriteLayer.update, over the frames of SpecSpr.            *)
(***************************************************************************)
SpritesEnabled == fl.n >= 1 /\ fl.snap.spritesVisible

\* What a half div shows: nothing while hidden.
HalfView(half) ==
  IF half.display = "none" THEN [display |-> "none"]
  ELSE [display |-> half.display, className |-> half.className,
        backgroundPosition |-> half.backgroundPosition]

\* What a slot shows: its visibility and, while visible, its position, flip
\* transform, depth value, sheet class and tile position (its own and those
\* of its halves).
SlotView(div) ==
  IF div.display = "none" THEN [display |-> "none"]
  ELSE [ display |-> div.display, left |-> div.left, top |-> div.top,
         transform |-> div.transform, zIndex |-> div.zIndex,
         className |-> div.className, backgroundPosition |-> div.backgroundPosition,
         topDiv |-> HalfView(div.topDiv), botDiv |-> HalfView(div.botDiv) ]

\* The layer a history of this one frame leaves.
FreshLayer == SLUpdateF(SLInit, fl.snap, tc)

\* C15: after every SpriteLayer.update with sprites enabled every slot shows
\* what it shows after a history made of the latest snapshot alone: the same
\* visibility and, when visible, the same position, flip transform, depth
\* value, sheet class and tile position, whatever the frames before.
C15_SlotsDependOnSnapshotOnly ==
  SpritesEnabled =>
    \A i \in Slots : SlotView(sl.spriteDivs[i]) = SlotView(FreshLayer.spriteDivs[i])

\* Two enabled frames in a row in which slot 0 is on screen with different
\* sprites: the slot shows something else than after the frame before.
C15_Witness ==
  /\ LaterFrame /\ fl.snap.spritesVisible /\ fl.prev.spritesVisible
  /\ fl.snap.spriteSize = fl.prev.spriteSize
  /\ fl.snap.sprites[0] # fl.prev.sprites[0]
  /\ fl.slPre.spriteDivs[0].display = "" /\ sl.spriteDivs[0].display = ""
  /\ SlotView(sl.spriteDivs[0]) # SlotView(fl.slPre.spriteDivs[0])
  /\ SlotView(sl.spriteDivs[0]) = SlotView(FreshLayer.spriteDivs[0])

\* Slot i is hidden when its sprite's row y + 1 is 240 or more, and is
\* otherwise shown at left = x, top = y + 1 with depth -1 behind the
\* background and 1 in front.
SlotPlaced(i) ==
  IF fl.snap.sprites[i].y + 1 >= 240
  THEN sl.spriteDivs[i].display = "none"
  ELSE /\ sl.spriteDivs[i].display = ""
       /\ sl.spriteDivs[i].left = ToString(fl.snap.sprites[i].x) \o "px"
       /\ sl.spriteDivs[i].top = ToString(fl.snap.sprites[i].y + 1) \o "px"
       /\ sl.spriteDivs[i].zIndex = IF fl.snap.sprites[i].behindBg THEN "-1" ELSE "1"

\* C16 as stated: after SpriteLayer.update, in both sprite modes, every slot
\* is hidden when its sprite's y + 1 >= 240 and otherwise shown at left = x,
\* top = y + 1, with depth -1 for a background-priority sprite and 1
\* otherwise.
C16_PlacementAndCulling == fl.n >= 1 => \A i \in Slots : SlotPlaced(i)

\* C16: after a SpriteLayer.update with sprites enabled, in both sprite
\* modes, every slot is hidden when its sprite's y + 1 >= 240 and otherwise
\* shown at left = x, top = y + 1, with depth -1 for a background-priority
\* sprite and 1 otherwise.
C16_PlacementAndCullingWhenEnabled == SpritesEnabled => \A i \in Slots : SlotPlaced(i)

\* 8x16 mode: the sprite of slot 0 at y = 239 is hidden, the one of slot 1
\* at (0, 0) in front of the background is shown at (0, 1) with depth 1.
C16_Witness ==
  /\ SpritesEnabled /\ fl.snap.spriteSize = 1
  /\ fl.snap.sprites[0].y = 239 /\ sl.spriteDivs[0].display = "none"
  /\ fl.snap.sprites[1].x = 0 /\ fl.snap.sprites[1].y = 0
  /\ ~fl.snap.sprites[1].behindBg
  /\ sl.spriteDivs[1].display = "" /\ sl.spriteDivs[1].left = "0px"
  /\ sl.spriteDivs[1].top = "1px" /\ sl.spriteDivs[1].zIndex = "1"

\* A sprite is visible when the layer and its slot are displayed.
SlotVisible(i) == fl.n >= 1 /\ sl.display = "" /\ sl.spriteDivs[i].display = ""

\* The class of the sheet of a sprite bank and palette group.
SheetClass(bank, group) == "spr-b" \o ToString(bank) \o "-pal-" \o ToString(group)

\* 8x8 mode: the slot references the sheet of the bank of sprPatternBase and
\* of group palette div 4, at the position of the tile index.
References8x8(i) ==
  /\ sl.spriteDivs[i].className =
       "sprite " \o SheetClass(IF fl.snap.sprPatternBase = 0 THEN 0 ELSE 1,
                               fl.snap.sprites[i].palette \div 4)
  /\ sl.spriteDivs[i].backgroundPosition = GetTilePosition(fl.snap.sprites[i].tileIndex)

\* 8x16 mode: both halves reference the sheet of the bank given by bit 0 of
\* the tile index and of group palette div 4; their tiles are the index with
\* bit 0 cleared and that + 1.
References8x16(i) ==
  LET tileIndex == fl.snap.sprites[i].tileIndex
      topTile   == tileIndex - (tileIndex % 2)
      class     == "sprite-half " \o SheetClass(tileIndex % 2, fl.snap.sprites[i].palette \div 4)
  IN /\ sl.spriteDivs[i].topDiv.display = "" /\ sl.spriteDivs[i].botDiv.display = ""
     /\ sl.spriteDivs[i].topDiv.className = class
     /\ sl.spriteDivs[i].botDiv.className = class
     /\ { sl.spriteDivs[i].topDiv.backgroundPosition,
          sl.spriteDivs[i].botDiv.backgroundPosition }
          = { GetTilePosition(topTile), GetTilePosition(topTile + 1) }

\* C17: a visible sprite references, in 8x8 mode, the sheet of bank 0 when
\* sprPatternBase = 0 and of bank 1 otherwise, with group palette div 4, at
\* the position of its tile index; in 8x16 mode both halves reference the
\* sheet of the bank given by bit 0 of the tile index, whatever
\* sprPatternBase, with the same group, the tiles being the index with bit 0
\* cleared and that + 1.
C17_BankSelection ==
  \A i \in Slots :
    SlotVisible(i) =>
      IF fl.snap.spriteSize = 1 THEN References8x16(i) ELSE References8x8(i)

\* 8x16 mode with sprPatternBase = 0: the sprite of slot 0 with tile 43 and
\* palette 12 references bank 1, group 3, tiles 42 and 43, and the one of
\* slot 1 with tile 0 references bank 0.
C17_Witness ==
  /\ SlotVisible(0) /\ SlotVisible(1)
  /\ fl.snap.spriteSize = 1 /\ fl.snap.sprPatternBase = 0
  /\ fl.snap.sprites[0].tileIndex = 43 /\ fl.snap.sprites[0].palette = 12
  /\ sl.spriteDivs[0].topDiv.className = "sprite-half spr-b1-pal-3"
  /\ sl.spriteDivs[0].botDiv.className = "sprite-half spr-b1-pal-3"
  /\ sl.spriteDivs[1].topDiv.className = "sprite-half spr-b0-pal-0"
  /\ References8x16(0)

\* The flips of the sprite of slot i as a mirror: factor -1 on a flipped
\* axis, 1 on the other.
MirrorOfFlips(i) ==
  sl.spriteDivs[i].transform =
    "scale(" \o (IF fl.snap.sprites[i].flipH THEN "-1" ELSE "1") \o ", "
             \o (IF fl.snap.sprites[i].flipV THEN "-1" ELSE "1") \o ")"

\* The half elements of slot i: top tile above bottom tile, or the reverse
\* under a vertical flip.
HalvesAssigned(i) ==
  LET tileIndex == fl.snap.sprites[i].tileIndex
      topTile   == tileIndex - (tileIndex % 2)
      botTile   == topTile + 1
  IN IF fl.snap.sprites[i].flipV
     THEN /\ sl.spriteDivs[i].topDiv.backgroundPosition = GetTilePosition(botTile)
          /\ sl.spriteDivs[i].botDiv.backgroundPosition = GetTilePosition(topTile)
     ELSE /\ sl.spriteDivs[i].topDiv.backgroundPosition = GetTilePosition(topTile)
          /\ sl.spriteDivs[i].botDiv.backgroundPosition = GetTilePosition(botTile)

\* C18: a visible 8x16 sprite that is vertically flipped has the bottom tile
\* (index with bit 0 cleared, + 1) in its top half element and the top tile
\* in its bottom half element, one that is not flipped the top tile in the
\* top element and the bottom tile in the bottom element; the flips of a
\* visible sprite are a mirror with factor -1 or 1 per axis.
C18_FlipSwapsHalves ==
  \A i \in Slots :
    SlotVisible(i) =>
      /\ MirrorOfFlips(i)
      /\ fl.snap.spriteSize = 1 => HalvesAssigned(i)

\* 8x16 mode: the sprite of slot 0, tile 43 flipped on both axes, has tile 43
\* in its top half and tile 42 in its bottom half, mirrored on both axes; the
\* sprite of slot 1, tile 0 not flipped, has tile 0 above tile 1.
C18_Witness ==
  /\ SlotVisible(0) /\ SlotVisible(1) /\ fl.snap.spriteSize = 1
  /\ fl.snap.sprites[0].tileIndex = 43
  /\ fl.snap.sprites[0].flipV /\ fl.snap.sprites[0].flipH
  /\ sl.spriteDivs[0].topDiv.backgroundPosition = "-88px -16px"
  /\ sl.spriteDivs[0].botDiv.backgroundPosition = "-80px -16px"
  /\ sl.spriteDivs[0].transform = "scale(-1, -1)"
  /\ ~fl.snap.sprites[1].flipV /\ fl.snap.sprites[1].tileIndex = 0
  /\ sl.spriteDivs[1].topDiv.backgroundPosition = "-0px -0px"
  /\ sl.spriteDivs[1].botDiv.backgroundPosition = "-8px -0px"
  /\ sl.spriteDivs[1].transform = "scale(1, 1)"

(***************************************************************************)
(* Claims about the sheet identifiers and the stylesheet of the tile       *)
(* cache, over the frames of SpecTC.                                       *)
(***************************************************************************)
\* The sheets that have been generated at least once.
Generated == {i \in Sheets : tc.blobUrls[i] # NoUrl}

\* The latest update rewrote the stylesheet once if it regenerated a sheet,
\* and not at all otherwise.
RewrittenOnceIfRegenerated ==
  tc.styleWrites = IF Regenerated # {} THEN 1 ELSE 0

\* The stylesheet has one rule for every generated sheet and no other, and
\* the rule of a sheet carries the sheet's current identifier.
RulesAreCurrent ==
  /\ Len(tc.styleRules) = Cardinality(Generated)
  /\ \A i \in Generated :
       \E k \in 1 .. Len(tc.styleRules) :
         /\ tc.styleRules[k].class = SheetClassName(i)
         /\ tc.styleRules[k].url = tc.blobUrls[i]

\* The classes of the stylesheet after a full call.
AllTwelveClasses ==
  { tc.styleRules[k].class : k \in 1 .. Len(tc.styleRules) }
    = { "bg-pal-0", "bg-pal-1", "bg-pal-2", "bg-pal-3",
        "spr-b0-pal-0", "spr-b0-pal-1", "spr-b0-pal-2", "spr-b0-pal-3",
        "spr-b1-pal-0", "spr-b1-pal-1", "spr-b1-pal-2", "spr-b1-pal-3" }

\* C19: every TileCache.update rewrites the stylesheet exactly once if it
\* regenerated at least one sheet and not at all otherwise; the stylesheet
\* has one rule for every sheet generated so far, all 12 classes after a
\* full first call, and after any sequence of calls every rule carries the
\* latest identifier of its sheet.
C19_BatchedRepublish ==
  fl.n >= 1 =>
    /\ RewrittenOnceIfRegenerated
    /\ RulesAreCurrent
    /\ (FirstFrame /\ Regenerated = Sheets) => AllTwelveClasses

\* A later call that regenerates some sheets and not others, one of them
\* with a new identifier: one rewrite, and the rule of that sheet carries
\* the new identifier.
C19_Witness ==
  /\ LaterFrame /\ Regenerated # {} /\ Regenerated # Sheets
  /\ tc.styleWrites = 1
  /\ \E i \in Regenerated :
       /\ tc.blobUrls[i] # fl.tcPre.blobUrls[i]
       /\ tc.styleRules[i + 1].url = tc.blobUrls[i]
       /\ fl.tcPre.styleRules[i + 1].url = fl.tcPre.blobUrls[i]
  /\ RulesAreCurrent

\* Sheet i was regenerated by the latest update and got another identifier
\* than the one it held.
Replaced(i) ==
  /\ i \in Regenerated
  /\ fl.tcPre.blobUrls[i] # NoUrl
  /\ tc.blobUrls[i] # fl.tcPre.blobUrls[i]

\* C20: a regenerated sheet's old identifier is released before the new one
\* is stored, so no sheet ever has more than one unreleased identifier, there
\* are at most 12 in total, and a sheet that has an identifier never loses
\* it.
C20_SingleSlotReuse ==
  fl.n >= 1 =>
    /\ \A i \in Sheets : Replaced(i) => fl.tcPre.blobUrls[i] \notin tc.live[i]
    /\ \A i \in Sheets : tc.peakLive[i] <= 1 /\ Cardinality(tc.live[i]) <= 1
    /\ Cardinality({<<i, u>> \in Sheets \X UNION {tc.live[j] : j \in Sheets} :
                      u \in tc.live[i]}) <= 12
    /\ \A i \in Sheets : fl.tcPre.blobUrls[i] # NoUrl => tc.blobUrls[i] # NoUrl

\* A later call replaces the identifier of a sheet: the new one is the only
\* unreleased identifier of the sheet.
C20_Witness ==
  /\ LaterFrame
  /\ \E i \in Sheets :
       /\ Replaced(i)
       /\ tc.live[i] = {tc.blobUrls[i]}
       /\ fl.tcPre.live[i] = {fl.tcPre.blobUrls[i]}


(***************************************************************************)
(* C21                                                                     *)
(***************************************************************************)
\* The latest update emitted the warning.
WarnedNow == tc.warnings = fl.tcPre.warnings + 1

\* The latest update did what a call that regenerates every sheet does.
CompletedNormally ==
  /\ Regenerated = Sheets
  /\ tc.updatedSheets = Sheets
  /\ Generated = Sheets
  /\ tc.styleWrites = 1
  /\ RulesAreCurrent

\* C21: TileCache.update emits the warning exactly when it is the 60th call
\* in a row that regenerated all 12 sheets: once per streak, not on the 61st
\* and later calls; a call that regenerates fewer than 12 sheets resets the
\* count to 0; the call that warns completes with the sheet updates of any
\* other call.
C21_WarnOnSixtiethOnly ==
  fl.n >= 1 =>
    /\ tc.warnings \in {fl.tcPre.warnings, fl.tcPre.warnings + 1}
    /\ WarnedNow <=> fl.streak = WarnAfter
    /\ tc.consecRegenFrames = fl.streak
    /\ Regenerated # Sheets => tc.consecRegenFrames = 0
    /\ WarnedNow => CompletedNormally

\* The 60th call of a second streak: the warning is emitted a second time,
\* after a streak that went past 60 calls with one warning and was broken.
C21_Witness ==
  /\ fl.streak = WarnAfter
  /\ WarnedNow
  /\ tc.warnings = 2

(***************************************************************************)
(* C22                                                                     *)
(***************************************************************************)
\* The handler that ran last stepped the emulator once and then rendered,
\* once, the snapshot that step produced.
OneFrameOneRender ==
  /\ app.latestPPUState = <<Extract(PPU)>>
  /\ \/ /\ ev.calls = <<"nes.frame", "renderFrame">>
        /\ fl.n >= 1
        /\ fl.snap = app.latestPPUState[1]
     \/ /\ ev.calls = <<"nes.frame", "renderCanvasFrame">>
        /\ app.compareCanvas = app.latestPPUState
        /\ app.canvasMode

\* After a Step click: one frame and one render if running and paused (the
\* handler leaves both flags as they were), no call otherwise.
StepDoesOneOrNothing ==
  ev.handler = "step" =>
    IF app.running /\ app.paused THEN OneFrameOneRender ELSE ev.calls = <<>>

\* A step of the system in which gameLoop runs while paused, or the Step
\* handler runs while not running or not paused, leaves the emulator, the
\* renderer and the comparison canvas as they were.
HaltedHandlersDoNothing ==
  /\ (ev'.handler = "gameLoop" /\ app.paused) =>
        /\ ev'.calls = <<>>
        /\ app'.latestPPUState = app.latestPPUState
        /\ app'.compareCanvas = app.compareCanvas
        /\ UNCHANGED <<envVars, pmVars, rfVars>>
  /\ (ev'.handler = "step" /\ ~(app.running /\ app.paused)) =>
        /\ ev'.calls = <<>>
        /\ UNCHANGED <<app, envVars, pmVars, rfVars>>

\* C22: while paused, an animation-frame callback steps no frame and renders
\* nothing; a Step click while running and paused performs exactly one
\* emulation frame step followed by exactly one render pass of the snapshot
\* that step produced; a Step click while not running or not paused does
\* nothing.
C22_RunControl ==
  /\ []StepDoesOneOrNothing
  /\ [][HaltedHandlersDoNothing]_vars

\* A Step click while running and paused, with a gameLoop callback of an
\* earlier ROM load still pending: one frame step, then one render pass of
\* its snapshot by the renderer.
C22_Witness ==
  /\ ev.handler = "step"
  /\ app.paused /\ app.running
  /\ app.pending > 0
  /\ ev.calls = <<"nes.frame", "renderFrame">>
  /\ fl.snap = Extract(PPU)
  /\ fl.n = 2

(***************************************************************************)
(* C23                                                                     *)
(***************************************************************************)
GridOffsets == {<<8 * c, 8 * r>> : c \in 0 .. 15, r \in 0 .. 15}

\* The background-position string that shows the sheet at grid offset o.
OffsetCSS(o) == "-" \o ToString(o[1]) \o "px -" \o ToString(o[2]) \o "px"

\* The grid offset of tile index i: column i mod 16, row i div 16, 8 pixels each.
GridOffsetOf(i) == <<8 * (i % 16), 8 * (i \div 16)>>

TilePositions == {GetTilePosition(i) : i \in 0 .. 255}

\* getTilePosition is one-to-one from 0..255 onto the 256 grid offsets.
TilePositionIsBijection ==
  /\ Cardinality(TilePositions) = 256
  /\ TilePositions = {OffsetCSS(o) : o \in GridOffsets}
  /\ \A i \in 0 .. 255 : GetTilePosition(i) = OffsetCSS(GridOffsetOf(i))
  /\ GetTilePosition(0) = "-0px -0px"
  /\ GetTilePosition(15) = "-120px -0px"
  /\ GetTilePosition(16) = "-0px -8px"
  /\ GetTilePosition(255) = "-120px -120px"

\* _renderSheet puts the corner of every tile at the tile's grid offset.
RenderedAtTilePosition ==
  \A i \in 0 .. 255 :
    /\ TileOrigin(i) = GridOffsetOf(i)
    /\ GetTilePosition(i) = OffsetCSS(TileOrigin(i))

\* The rgba the snapshot's tile t of sheet i should show at pixel k.
ExpectedPixel(i, t, k) ==
  LET tile == fl.snap.ptTile[SheetBase(i, fl.snap.bgPatternBase) + t]
  IN IF tile.ref = 0 THEN 0 ELSE Pixel(PixData[tile.pix][k], SheetColors(pm, i))

\* Sheet i, as it is, has pixel k of tile t at the grid offset of t.
ShowsTileAtOffset(i, t, k) ==
  <<(GridOffsetOf(t)[2] + (k \div 8)) * 128 + GridOffsetOf(t)[1] + (k % 8),
    ExpectedPixel(i, t, k)>> \in tc.blobUrls[i][1]

\* C23: the tile-position mapping is a bijection from 0..255 onto the grid
\* offsets (8c, 8r), index -> (index mod 16, index div 16) -> (col*8, row*8),
\* with 0 -> (0,0), 15 -> (120,0), 16 -> (0,8), 255 -> (120,120); the same
\* mapping places the tile pixels when a sheet is rendered.
C23_TilePositionBijection ==
  /\ TilePositionIsBijection
  /\ RenderedAtTilePosition
  /\ \A i \in Regenerated : \A t \in 0 .. (TilesPerBank - 1) : \A k \in PixReps :
       ShowsTileAtOffset(i, t, k)

\* A sheet was rendered with an opaque pixel of the last tile of its bank
\* at that tile's grid offset.
C23_Witness ==
  \E i \in Regenerated : \E k \in PixReps :
    /\ ExpectedPixel(i, TilesPerBank - 1, k) > 0
    /\ ShowsTileAtOffset(i, TilesPerBank - 1, k)

(***************************************************************************)
(* C24                                                                     *)
(***************************************************************************)
\* Pix contents m and n differ at exactly one of the 64 positions.
DifferInOnePixel(m, n) ==
  Cardinality({k \in 0 .. (PixLen - 1) : PixData[m][k] # PixData[n][k]}) = 1

\* C24: _hashPix is deterministic, its result is an unsigned 32-bit integer
\* (here two 16-bit halves), and two 64-element arrays of values 0..3 that
\* differ in exactly one position have different hashes; stated of the
\* content of every Tile object and every content a write can give it.
C24_HashSensitive ==
  \A o \in DOMAIN tilePix :
    /\ PixHash[tilePix[o]] = HashPix(PixData[tilePix[o]])
    /\ PixHash[tilePix[o]] \in (0 .. 65535) \X (0 .. 65535)
    /\ \A m \in PixNames :
         DifferInOnePixel(m, tilePix[o]) => PixHash[m] # PixHash[tilePix[o]]

(***************************************************************************)
(* C25                                                                     *)
(***************************************************************************)
\* What a reader of the snapshot's palette array r finds in it now.
Observed(r) == IF r.alias THEN Slice16(PPU[r.of]) ELSE r.items

\* The kept snapshot still shows the palettes of the time of the call.
SnapshotKeepsPalettes ==
  held # NotHeld =>
    /\ Observed(held[1].bgPalette) = Slice16(held[1].taken.bg)
    /\ Observed(held[1].sprPalette) = Slice16(held[1].taken.spr)
    /\ DOMAIN Observed(held[1].bgPalette) = 0 .. 15
    /\ DOMAIN Observed(held[1].sprPalette) = 0 .. 15

\* A step that takes a snapshot leaves the emulator's state as it was.
ExtractModifiesNothing == held' # held => UNCHANGED envVars

\* C25: extract copies the first 16 entries of the background and sprite
\* palettes by value: a later mutation of the emulator's palette arrays is
\* not observable through the snapshot, and extract modifies no
\* emulator-owned state.
C25_PalettesCopied ==
  /\ []SnapshotKeepsPalettes
  /\ [][ExtractModifiesNothing]_vars

\* A snapshot is kept and the emulator has since written both palettes.
C25_Witness ==
  /\ held # NotHeld
  /\ held[1].taken.bg # imgPalette
  /\ held[1].taken.spr # sprPalette
  /\ Observed(held[1].bgPalette) = held[1].taken.bg

(***************************************************************************)
(* C26                                                                     *)
(***************************************************************************)
\* The rgba values image has at pixel d; rgba 0 is fully transparent.
ValuesAt(image, d) == {w[2] : w \in {v \in image : v[1] = d}}

\* Opaque, in the colour the CSS string names.
OpaqueIn(rgba, css) ==
  /\ rgba \div 16777216 = 1
  /\ "#" \o PadStart0(ToString16(rgba % 16777216), 6) = css

\* Pixel k of tile t in sheet i, as the latest update rendered it, is right:
\* transparent if the tile is absent or the pixel value is 0, else opaque in
\* the colour of that index in the sheet's palette group.
PixelRight(i, t, k) ==
  LET tile   == fl.snap.ptTile[SheetBase(i, fl.snap.bgPatternBase) + t]
      values == ValuesAt(tc.blobUrls[i][1], DestPixel(t, k))
      idx    == PixData[tile.pix][k]
  IN /\ Cardinality(values) = 1
     /\ \A rgba \in values :
          IF tile.ref = 0 \/ idx = 0 THEN rgba = 0
          ELSE OpaqueIn(rgba, SheetColors(pm, i)[idx])

\* C26: in a regenerated sheet the 8x8 area of an absent tile is fully
\* transparent, whatever the sheet showed there before; pixel value 0 of a
\* present tile is transparent and values 1-3 are opaque in the palette-group
\* colour of that index.
C26_AbsentTileTransparent ==
  \A i \in Regenerated : \A t \in 0 .. (TilesPerBank - 1) : \A k \in PixReps :
    PixelRight(i, t, k)

\* A sheet that showed opaque pixels of a tile was regenerated after the
\* tile's record went missing.
C26_Witness ==
  \E i \in Regenerated : \E t \in 0 .. (TilesPerBank - 1) : \E k \in PixReps :
    /\ fl.snap.ptTile[SheetBase(i, fl.snap.bgPatternBase) + t].ref = 0
    /\ fl.tcPre.blobUrls[i] # NoUrl
    /\ \E rgba \in ValuesAt(fl.tcPre.blobUrls[i][1], DestPixel(t, k)) : rgba # 0
    /\ ValuesAt(tc.blobUrls[i][1], DestPixel(t, k)) = {0}

(***************************************************************************)
(* C27                                                                     *)
(***************************************************************************)
\* Sheet i drawn from scratch from the latest snapshot: the bank it shows
\* (for a BG sheet the one bgBase selects) in its current palette group.
FromScratch(i) ==
  ToDataURL(SheetImage(fl.snap.ptTile, SheetBase(i, fl.snap.bgPatternBase),
                       SheetColors(pm, i)))

AllTilesPresent == \A i \in TileIdx : fl.snap.ptTile[i].ref # 0

\* C27: after every renderFrame over snapshots with all tile records present
\* and no two distinct tile contents of equal checksum, each of the 12
\* sheets equals a from-scratch rendering of its current inputs, across
\* palette changes, in-place tile writes, bank switches and bgBase changes.
C27_CacheCoherent ==
  (fl.n >= 1 /\ AllTilesPresent /\ ~fl.clash) =>
    \A i \in Sheets : tc.blobUrls[i] = FromScratch(i)

\* The bank not selected for the background changed in an earlier frame,
\* the latest frame selected it, and the BG sheets show it.
C27_Witness ==
  /\ LaterFrame /\ ~fl.clash
  /\ fl.snap.bgPatternBase # fl.prev.bgPatternBase
  /\ \E t \in 0 .. (TilesPerBank - 1) :
       /\ fl.prev.ptTile[fl.snap.bgPatternBase + t].pix # "zero"
       /\ fl.snap.ptTile[fl.snap.bgPatternBase + t] = fl.prev.ptTile[fl.snap.bgPatternBase + t]
  /\ \A i \in BgSheets : tc.blobUrls[i] = FromScratch(i)
  /\ tc.blobUrls[0] # fl.tcPre.blobUrls[0]

(***************************************************************************)
(* C28                                                                     *)
(***************************************************************************)
\* The background layer a full redraw gives: a new BGLayer updated once with
\* the latest snapshot.
FullRedraw == BGUpdateF(BGInit, fl.snap, tc)

\* Cell i of quadrant q is as a full redraw leaves it, and that is: baselines
\* the nametable's tile index and attribute, sheet position that of the tile
\* index, palette class and recorded palette attribute div 4, recorded tile
\* index the tile index.
CellAsRedrawn(full, q, i) ==
  LET tileIdx == MappedNT(q).tile[i]
      attrib  == MappedNT(q).attrib[i]
      div     == bg.quadTileDivs[q][i]
  IN /\ bg.prevTile[q][i] = full.prevTile[q][i]
     /\ bg.prevAttrib[q][i] = full.prevAttrib[q][i]
     /\ div = full.quadTileDivs[q][i]
     /\ bg.prevTile[q][i] = tileIdx
     /\ bg.prevAttrib[q][i] = attrib
     /\ div.backgroundPosition = OffsetCSS(GridOffsetOf(tileIdx))
     /\ div.className = "bg-tile bg-pal-" \o ToString(attrib \div 4)
     /\ div.palette = ToString(attrib \div 4)
     /\ div.tileIdx = ToString(tileIdx)

IncrementalEqualsRedraw(full) ==
  \A q \in Quadrants :
    MappedNT(q).present => \A i \in Cells : CellAsRedrawn(full, q, i)

\* C28: after every BGLayer.update with the background visible, for every
\* quadrant whose mapped nametable is non-null and every cell, the baselines
\* equal the nametable's current tile index and attribute, the sheet position
\* is that of the current tile index, the palette class and recorded palette
\* are attribute div 4 and the recorded tile index is the current one: the
\* state a full redraw gives.
C28_IncrementalEqualsFullRedraw ==
  (fl.n >= 1 /\ fl.snap.bgVisible) => IncrementalEqualsRedraw(FullRedraw)

\* A later visible frame that wrote one cell of a mapped quadrant, now in a
\* palette group other than 0, and skipped another.
C28_Witness ==
  /\ LaterFrame /\ fl.snap.bgVisible
  /\ IncrementalEqualsRedraw(FullRedraw)
  /\ \E q \in Quadrants : \E i, j \in Cells :
       /\ MappedNT(q).present
       /\ <<q, i>> \in bg.written
       /\ <<q, j>> \notin bg.written
       /\ MappedNT(q).attrib[i] \div 4 # 0

(***************************************************************************)
(* C29                                                                     *)
(***************************************************************************)
\* The stored checksum of slot i is the hash of the content the tile had at
\* the latest update.
BaselineCurrent(i) == tc.tileChecksums[i] = PixHash[fl.snap.ptTile[i].pix]

\* C29: after every TileCache.update, for every present tile the stored
\* checksum of its slot equals the hash of the tile's current pixel content,
\* whether or not bank-switch detection fired and whether or not a sheet was
\* regenerated.
C29_BaselinesCurrent ==
  fl.n >= 1 =>
    \A i \in TileIdx : fl.snap.ptTile[i].ref # 0 => BaselineCurrent(i)

\* A later update that found the signature unchanged and a tile of the
\* second pattern table rewritten in place: its checksum was replaced, and
\* the sprite sheets of the first bank were not regenerated.
C29_Witness ==
  /\ LaterFrame /\ SameSignature
  /\ \E i \in TilesPerBank .. (NumTiles - 1) :
       /\ tc.tileChecksums[i] # fl.tcPre.tileChecksums[i]
       /\ BaselineCurrent(i)
  /\ SprSheets(0) \cap Regenerated = {}

(***************************************************************************)
(* C30                                                                     *)
(***************************************************************************)
\* The slot's image is the one its sheet class gives: no inline
\* background-image on the element overrides the rule of the class.
ImageFromSheetClass(i) ==
  /\ References8x8(i)
  /\ sl.spriteDivs[i].backgroundImage = ""

\* C30: after any sequence of SpriteLayer.update calls alternating between
\* the 8x16 and 8x8 modes, every slot that is visible in an 8x8 frame takes
\* its image from its sheet class: no inline 'background-image: none' of an
\* earlier 8x16 frame is still in effect.
C30_NoModeSwitchResidue ==
  \A i \in Slots :
    (SlotVisible(i) /\ fl.snap.spriteSize = 0) => ImageFromSheetClass(i)

(***************************************************************************)
(* C31                                                                     *)
(***************************************************************************)
\* The record of slot i is present in exactly one of the latest two
\* snapshots.
PresenceChanged(i) ==
  /\ LaterFrame
  /\ (fl.snap.ptTile[i].ref = 0) # (fl.prev.ptTile[i].ref = 0)

\* Sheet s shows slot i of its pattern table as the latest snapshot has it:
\* transparent where the record is absent, its pixels where it is present.
ShowsSlotAsIs(s, i) ==
  \A k \in PixReps :
    ValuesAt(tc.blobUrls[s][1], DestPixel(i % TilesPerBank, k)) =
      { IF fl.snap.ptTile[i].ref = 0 THEN 0
        ELSE Pixel(PixData[fl.snap.ptTile[i].pix][k], SheetColors(pm, s)) }

\* C31: a tile record that goes from present to absent, or from absent to
\* present, between two update calls makes the later call regenerate the
\* sheets of its bank (the sprite sheets of the bank, the BG sheets if bgBase
\* selects it), so that every sheet of the bank shows the slot as it is now.
C31_PresenceChangeDetected ==
  \A i \in TileIdx :
    PresenceChanged(i) =>
      /\ SprSheets(BankOf(i)) \subseteq Regenerated
      /\ BgBank = BankOf(i) => BgSheets \subseteq Regenerated
      /\ \A s \in SprSheets(BankOf(i)) : ShowsSlotAsIs(s, i)

(***************************************************************************)
(* C32                                                                     *)
(***************************************************************************)
\* The latest frame's snapshot had no bank signature.
NoSignatureFrame == fl.n >= 1 /\ fl.snap.chrBankSignature = NoSignature

\* The latest two frames had no signature and the same tiles, palettes and
\* bgBase.
IdenticalNoSignatureCalls ==
  /\ LaterFrame /\ NoSignatureFrame
  /\ fl.prev.chrBankSignature = NoSignature
  /\ SameTiles /\ SamePalettes /\ SameBgBase

\* C32: an update without a bank signature leaves the stored region tokens
\* as they were and regenerates exactly the sheets that the palette dirty
\* sets, the bgBase comparison and the content checksums call for; on a fresh
\* cache it regenerates all 12 sheets, and a second call identical to it
\* regenerates none.
C32_WorksWithoutSignature ==
  NoSignatureFrame =>
    /\ tc.prevBankRefs = fl.tcPre.prevBankRefs
    /\ \A g \in Groups :
         g \in Regenerated <=>
           \/ g \in pm.dirtyBgGroups
           \/ ContentDirty(BgBank)
           \/ fl.snap.bgPatternBase # fl.tcPre.prevBgBase
    /\ \A bank \in {0, 1}, g \in Groups :
         (4 + 4 * bank + g) \in Regenerated <=>
           (g \in pm.dirtySprGroups \/ ContentDirty(bank))
    /\ fl.tcPre = TCInit => Regenerated = Sheets
    /\ IdenticalNoSignatureCalls => Regenerated = {}

\* A frame with a signature stored the tokens of a switched region; the
\* next frame, without one, found new content in bank 0 by its checksums,
\* regenerated the sprite sheets of that bank and kept the tokens.
C32_Witness ==
  /\ LaterFrame /\ NoSignatureFrame
  /\ fl.prev.chrBankSignature # NoSignature
  /\ \E r \in Regions : fl.tcPre.prevBankRefs[r] > NumTiles
  /\ tc.prevBankRefs = fl.tcPre.prevBankRefs
  /\ ContentDirty(0)
  /\ SprSheets(0) \subseteq Regenerated

(***************************************************************************)
(* C33                                                                     *)
(***************************************************************************)
\* The layer apart from its display style (and the record of the cells the
\* latest call wrote).
LayerBesidesDisplay(b) == [b EXCEPT !.display = "", !.written = {}]

\* The latest call hid the layer and touched nothing else.
HiddenAndUntouched ==
  /\ bg.display = "none"
  /\ bg.written = {}
  /\ LayerBesidesDisplay(bg) = LayerBesidesDisplay(fl.bgPre)

\* The latest call showed the layer and every cell of a quadrant with a
\* mapped nametable has that nametable's current data.
ShownAndCurrent ==
  /\ bg.display = ""
  /\ \A q \in Quadrants :
       MappedNT(q).present => \A i \in Cells : CellAsRedrawn(FullRedraw, q, i)

\* C33: an update with bgVisible false hides the background layer and
\* changes no cell, baseline, quadrant position or translation; an update
\* with bgVisible true shows the layer and leaves every cell with the
\* nametable data of that frame, whatever was written while it was hidden.
C33_HideAndShow ==
  fl.n >= 1 => IF fl.snap.bgVisible THEN ShownAndCurrent ELSE HiddenAndUntouched

\* The layer was drawn, then hidden; a nametable cell was written while it
\* was hidden, and the frame that shows the layer again rewrote that cell.
C33_Witness ==
  /\ LaterFrame /\ fl.snap.bgVisible /\ ~fl.prev.bgVisible
  /\ fl.bgPre.display = "none"
  /\ ShownAndCurrent
  /\ \E q \in Quadrants : \E i \in Cells :
       /\ MappedNT(q).present
       /\ fl.bgPre.prevTile[q][i] # -1
       /\ fl.bgPre.prevTile[q][i] # MappedNT(q).tile[i]
       /\ fl.prev.nameTables[fl.prev.mirrorMap[q]].tile[i] # MappedNT(q).tile[i]
       /\ <<q, i>> \in bg.written

(***************************************************************************)
(* C34                                                                     *)
(***************************************************************************)
\* C34: at any time at most one gameLoop callback is pending in
\* requestAnimationFrame, after any sequence of ROM loads, pause and resume
\* clicks and animation-frame callbacks.
C34_OnePendingCallback == app.pending <= 1

(***************************************************************************)
(* C35                                                                     *)
(***************************************************************************)
\* C35: the viewport carries the 'paused' class if and only if the paused
\* flag is true, after any sequence of ROM loads, pause/resume clicks and
\* step clicks.
C35_PausedMarkerFollowsFlag == app.viewportPaused <=> app.paused

(***************************************************************************)
(* C36                                                                     *)
(***************************************************************************)
\* The emulator is running unpaused.
RunningUnpaused == app.running /\ ~app.paused

\* The popover appears only by a click on a background tile or sprite
\* element while the emulator is paused.
ShownOnlyByClickWhilePaused ==
  (~IsVisible(app) /\ IsVisible(app')) =>
     /\ ev'.handler \in {"click bg-tile", "click sprite"}
     /\ app.paused

\* A click elsewhere while paused, and a resume, leave the popover hidden.
DismissedByClickElsewhereAndResume ==
  /\ (ev'.handler = "click other" /\ app.paused) => ~IsVisible(app')
  /\ (ev'.handler = "pause" /\ app.paused /\ ~app'.paused) => ~IsVisible(app')

\* C36: the popover is shown by a viewport click only when the emulator is
\* paused and the click is on a background tile or sprite element; a click
\* elsewhere while paused dismisses it, resuming with the pause button
\* dismisses it, and it is never visible while the emulator runs unpaused.
C36_PopoverOnlyWhilePaused ==
  /\ [](RunningUnpaused => ~IsVisible(app))
  /\ [][ShownOnlyByClickWhilePaused /\ DismissedByClickElsewhereAndResume]_vars

(***************************************************************************)
(* C37                                                                     *)
(***************************************************************************)
\* The step is a loadROM call whose nes.loadROM threw, made while a ROM was
\* loaded.
FailedLoadOverSession ==
  /\ app.romLoaded
  /\ ev'.handler = "loadROM"
  /\ ~app'.romLoaded

\* C37: a ROM load that fails reports the error and leaves the previous
\* session as it was: same emulator instance, same extractor, same latest
\* snapshot, same running and paused flags.
C37_FailedLoadKeepsSession ==
  [][FailedLoadOverSession =>
       /\ app'.statusBar = "Error"
       /\ app'.nes = app.nes
       /\ app'.extractor = app.extractor
       /\ app'.latestPPUState = app.latestPPUState
       /\ app'.running = app.running
       /\ app'.paused = app.paused]_vars

(***************************************************************************)
(* C38                                                                     *)
(***************************************************************************)
\* Row r of the content of the 8x16 element of a slot as it is laid out, the
\* top half element over the bottom one: the sheet position the half
\* references and the row of that tile.
LayoutRow(div, r) ==
  IF r < 8 THEN <<div.topDiv.backgroundPosition, r>>
  ELSE <<div.botDiv.backgroundPosition, r - 8>>

\* The element's transform mirrors its content top to bottom.
MirrorsVertically(div) ==
  div.transform \in {ScaleTransform(1, -1), ScaleTransform(-1, -1)}

\* Row r of the element on screen: under the mirror, the laid out row 15 - r.
ScreenRow(div, r) ==
  IF MirrorsVertically(div) THEN LayoutRow(div, 15 - r) ELSE LayoutRow(div, r)

\* Row r of the unflipped 16-row image of a sprite: the top tile (index with
\* bit 0 cleared) over the bottom tile.
UnflippedRow(sprite, r) ==
  LET topTile == sprite.tileIndex - (sprite.tileIndex % 2)
  IN IF r < 8 THEN <<GetTilePosition(topTile), r>>
     ELSE <<GetTilePosition(topTile + 1), r - 8>>

\* C38: a visible, vertically flipped 8x16 sprite shows on screen row r the
\* row 15 - r of its unflipped image: the bottom tile mirrored on rows 0-7,
\* the top tile mirrored on rows 8-15.
C38_FlippedTallSprite ==
  \A i \in Slots :
    (SlotVisible(i) /\ fl.snap.spriteSize = 1 /\ fl.snap.sprites[i].flipV) =>
      \A r \in 0 .. 15 :
        ScreenRow(sl.spriteDivs[i], r) = UnflippedRow(fl.snap.sprites[i], 15 - r)

(***************************************************************************)
(* C39                                                                     *)
(***************************************************************************)
\* C39: the palette-regions overlay colours the block over a cell with the
\* palette group the background layer gives the tile of that cell: for the
\* attribute values 0, 4, 8, 12 both are the attribute div 4.
C39_OverlayGroupIsLayerGroup ==
  (fl.n >= 1 /\ fl.snap.bgVisible) =>
    \A q \in Quadrants :
      MappedNT(q).present =>
        \A i \in Cells :
          /\ PaletteRegionGroup(MappedNT(q), i) = MappedNT(q).attrib[i] \div 4
          /\ ToString(PaletteRegionGroup(MappedNT(q), i)) = bg.quadTileDivs[q][i].palette

====
